---------------------------- MODULE Spec2Model ----------------------------
(***************************************************************************)
(* vCenter -> NetBox synchronisation of netbox_obudozer (sync.py,          *)
(* vmware.py): the field diff, the diff planner, cluster resolution, disk  *)
(* reconciliation, the transactional apply and the three-phase run.        *)
(***************************************************************************)
EXTENDS Integers, Sequences, FiniteSets, TLC

(***************************************************************************)
(* Values.  Python's None is the string "None"; text and hardware values   *)
(* are strings (the code only copies them and compares them for equality). *)
(***************************************************************************)
None == "None"

\* Python truthiness of an optional string: None and '' are falsy.
Truthy(v) == v # None /\ v # ""

\* last_synced of an entity that no run has stamped (the key is absent).
NoTime == 0

\* Bounds of the model: the runs of a behaviour, and the failures of the
\* environment in a behaviour (an unreachable vCenter, a call that raises).
MaxRuns == 2
MaxFaults == 1

\* Names of the virtual machines, in the datastore's default order.
NameSeq == <<"vm01", "vm02">>
Names == {NameSeq[i] : i \in DOMAIN NameSeq}

\* PLUGINS_CONFIG: vcenter_name (the ClusterGroup and the default cluster)
\* and cluster_type.
cluster_group_name == "vc.example"
cluster_type_value == "vmware"

(***************************************************************************)
(* VM descriptions, as get_vcenter_vms() returns them.                     *)
(***************************************************************************)
os_fields == <<"os_pretty_name", "os_family_name", "os_distro_name",
               "os_distro_version", "os_kernel_version", "os_bitness">>

ToSet(s) == {s[i] : i \in DOMAIN s}

\* The elements of a finite set of strings as a sequence of <<op, x>> pairs.
RECURSIVE SetToSeq(_, _)
SetToSeq(S, op) ==
    IF S = {} THEN << >>
    ELSE LET x == CHOOSE y \in S : TRUE
         IN  <<<<op, x>>>> \o SetToSeq(S \ {x}, op)


\* Custom fields compared by plain inequality in get_field_changes.
PlainFields == {"ip_address", "tools_status", "vmtools_description",
                "vmtools_version_number"} \cup ToSet(os_fields)

\* Custom fields apply_changes writes from a change entry by name.
custom_fields == {"vcenter_id"} \cup PlainFields

\* Every key of custom_field_data the model follows; obu_services is owned
\* by the signal handlers, not by the synchronisation.
CFKeys == custom_fields \cup {"vcenter_cluster", "last_synced", "obu_services"}

\* The fields a change set may name.
DiffFields == {"status", "vcenter_cluster", "vcpus", "memory"} \cup custom_fields

EmptyCF == [k \in CFKeys |-> IF k = "last_synced" THEN NoTime ELSE None]

(***************************************************************************)
(* Field-diff engine: get_field_changes.                                   *)
(***************************************************************************)
\* state -> status
vcenter_status(vcenter_data) ==
    IF vcenter_data.state = "running" THEN "active" ELSE "offline"

\* new_vcenter_cluster or cluster_group_name
expected_cluster_name(hint, group_name) ==
    IF Truthy(hint) THEN hint ELSE group_name

StatusDiffers(vm, vcenter_data) == vm.status # vcenter_status(vcenter_data)

\* The identifier compared like a plain field (a faulty variant).
VcenterIdPlainlyDiffers(vm, vcenter_data) ==
    vm.cf.vcenter_id # vcenter_data.vcenter_id

VcenterIdDiffers(vm, vcenter_data) ==
    Truthy(vcenter_data.vcenter_id) /\ vm.cf.vcenter_id # vcenter_data.vcenter_id

\* Only the comparison of the hints (a faulty variant).
HintDiffers(vm, vcenter_data, vm_cluster_name, group_name) ==
    /\ Truthy(vcenter_data.vcenter_cluster)
    /\ vm.cf.vcenter_cluster # vcenter_data.vcenter_cluster

\* The two triggers of the 'vcenter_cluster' entry.
ClusterDiffers(vm, vcenter_data, vm_cluster_name, group_name) ==
    \/ vm_cluster_name # expected_cluster_name(vcenter_data.vcenter_cluster, group_name)
    \/ /\ Truthy(vcenter_data.vcenter_cluster)
       /\ vm.cf.vcenter_cluster # vcenter_data.vcenter_cluster

NativeDiffers(vm, vcenter_data, f) == vm[f] # vcenter_data[f]

\* A comparison that reports every plain custom field (a faulty variant).
PlainAlwaysDiffers(vm, vcenter_data, f) == TRUE

PlainDiffers(vm, vcenter_data, f) == vm.cf[f] # vcenter_data[f]

\* A failed entity found again always gets a status entry.
Revived(vm) == vm.status = "failed"

OldValue(vm, f) ==
    IF f \in {"status", "vcpus", "memory"} THEN vm[f] ELSE vm.cf[f]

NewValue(vcenter_data, f) ==
    IF f = "status" THEN vcenter_status(vcenter_data) ELSE vcenter_data[f]

\* A field diff that never reports the status (a faulty variant, against
\* which the revival property is checked).
ChangedFieldsButStatus(vm, vcenter_data, vm_cluster_name, group_name) ==
    {f \in DiffFields \ {"status"} :
        \/ f = "vcenter_id" /\ VcenterIdDiffers(vm, vcenter_data)
        \/ f = "vcenter_cluster"
             /\ ClusterDiffers(vm, vcenter_data, vm_cluster_name, group_name)
        \/ f \in {"vcpus", "memory"} /\ NativeDiffers(vm, vcenter_data, f)
        \/ f \in PlainFields /\ PlainDiffers(vm, vcenter_data, f)}

ChangedFields(vm, vcenter_data, vm_cluster_name, group_name) ==
    {f \in DiffFields :
        \/ f = "status" /\ (StatusDiffers(vm, vcenter_data) \/ Revived(vm))
        \/ f = "vcenter_id" /\ VcenterIdDiffers(vm, vcenter_data)
        \/ f = "vcenter_cluster"
             /\ ClusterDiffers(vm, vcenter_data, vm_cluster_name, group_name)
        \/ f \in {"vcpus", "memory"} /\ NativeDiffers(vm, vcenter_data, f)
        \/ f \in PlainFields /\ PlainDiffers(vm, vcenter_data, f)}

\* vm.cluster.name: every entity refers to a cluster.
ClusterNameOf(vm, clusters) == clusters[vm.cluster].name

get_field_changes(vm, vcenter_data, group_name, clusters) ==
    [f \in ChangedFields(vm, vcenter_data, ClusterNameOf(vm, clusters), group_name) |->
        [old |-> OldValue(vm, f), new |-> NewValue(vcenter_data, f)]]

(***************************************************************************)
(* Diff planner: calculate_diff.  existing_vms is the name-keyed map of    *)
(* the entities read at the start of the run (NoVM: no entry).             *)
(***************************************************************************)
NoVM == [id |-> 0]

Exists(existing_vms, n) == existing_vms[n] # NoVM

EmptyDiff == [to_create |-> << >>, to_update |-> << >>,
              to_skip |-> << >>, to_mark_missing |-> << >>]

\* A planner step that does not look the name up (a faulty variant).
PlanItemByCreate(diff, vm_data, existing_vms, group_name, clusters) ==
    [diff EXCEPT !.to_create = Append(@, vm_data)]

\* One iteration of the loop over vcenter_vms.
PlanItem(diff, vm_data, existing_vms, group_name, clusters) ==
    IF Exists(existing_vms, vm_data.name)
    THEN LET changes == get_field_changes(existing_vms[vm_data.name], vm_data,
                                          group_name, clusters)
         IN  IF DOMAIN changes # {}
             THEN [diff EXCEPT !.to_update =
                      Append(@, [vm |-> vm_data.name, changes |-> changes])]
             ELSE [diff EXCEPT !.to_skip = Append(@, vm_data.name)]
    ELSE [diff EXCEPT !.to_create = Append(@, vm_data)]

RECURSIVE PlanItems(_, _, _, _, _, _)
PlanItems(diff, vcenter_vms, i, existing_vms, group_name, clusters) ==
    IF i > Len(vcenter_vms) THEN diff
    ELSE PlanItems(PlanItem(diff, vcenter_vms[i], existing_vms, group_name, clusters),
                   vcenter_vms, i + 1, existing_vms, group_name, clusters)

\* Absence alone, whatever the status (a faulty variant).
IsAbsent(existing_vms, vcenter_names, n) ==
    Exists(existing_vms, n) /\ n \notin vcenter_names

\* Entities that are absent from vCenter and not yet failed.
IsMissing(existing_vms, vcenter_names, n) ==
    /\ Exists(existing_vms, n)
    /\ n \notin vcenter_names
    /\ existing_vms[n].status # "failed"

RECURSIVE MissingFrom(_, _, _)
MissingFrom(existing_vms, vcenter_names, i) ==
    IF i > Len(NameSeq) THEN << >>
    ELSE (IF IsMissing(existing_vms, vcenter_names, NameSeq[i])
          THEN <<NameSeq[i]>> ELSE << >>)
         \o MissingFrom(existing_vms, vcenter_names, i + 1)

calculate_diff(vcenter_vms, existing_vms, group_name, clusters) ==
    LET d == PlanItems(EmptyDiff, vcenter_vms, 1, existing_vms, group_name, clusters)
        vcenter_names == {vcenter_vms[i].name : i \in DOMAIN vcenter_vms}
    IN  [d EXCEPT !.to_mark_missing = MissingFrom(existing_vms, vcenter_names, 1)]

(***************************************************************************)
(* Cluster resolution: get_or_create_cluster.  clusters is the Cluster     *)
(* table, a sequence whose index is the primary key (clusters are never    *)
(* deleted by the synchronisation).                                        *)
(***************************************************************************)
ClustersNamed(clusters, cluster_name) ==
    {i \in DOMAIN clusters : clusters[i].name = cluster_name}

NewCluster(cluster_name, cluster_type, cluster_group) ==
    [name |-> cluster_name, type |-> cluster_type, group |-> cluster_group,
     status |-> "active"]

\* An existing cluster: its group is set to cluster_group when it differs;
\* its type is not touched.
Reattach(clusters, i, cluster_group) ==
    IF clusters[i].group # cluster_group
    THEN [clusters EXCEPT ![i].group = cluster_group]
    ELSE clusters

\* A resolution that creates a cluster at every call (a faulty variant).
create_cluster(clusters, cluster_name, cluster_type, cluster_group) ==
    [raised |-> FALSE, id |-> Len(clusters) + 1,
     clusters |-> Append(clusters, NewCluster(cluster_name, cluster_type, cluster_group))]

\* Cluster.objects.get_or_create(name=...): .get() raises
\* MultipleObjectsReturned when several clusters carry the name.
get_or_create_cluster(clusters, cluster_name, cluster_type, cluster_group) ==
    LET found == ClustersNamed(clusters, cluster_name)
    IN  IF found = {}
        THEN [raised |-> FALSE, id |-> Len(clusters) + 1,
              clusters |-> Append(clusters,
                             NewCluster(cluster_name, cluster_type, cluster_group))]
        ELSE IF Cardinality(found) = 1
        THEN LET i == CHOOSE j \in found : TRUE
             IN  [raised |-> FALSE, id |-> i,
                  clusters |-> Reattach(clusters, i, cluster_group)]
        ELSE [raised |-> TRUE, id |-> 0, clusters |-> clusters]

(***************************************************************************)
(* Disk reconciliation: sync_vm_disks.  vm_disks is the entity's           *)
(* VirtualDisk rows, a function from disk name to [size, description];     *)
(* writes lists the rows written, in order.                                *)
(***************************************************************************)
\* The description string, as the list of its ', '-joined parts.
DiskDescription(disk_data) ==
    (IF disk_data.thin_provisioned # "absent"
     THEN <<IF disk_data.thin_provisioned = "True"
            THEN "Provisioning: Thin" ELSE "Provisioning: Thick">>
     ELSE << >>)
    \o (IF Truthy(disk_data.file_name) THEN <<"File: " \o disk_data.file_name>>
        ELSE << >>)

Without(f, k) == [x \in (DOMAIN f) \ {k} |-> f[x]]

With(f, k, v) == [x \in (DOMAIN f) \cup {k} |-> IF x = k THEN v ELSE f[x]]

DiskRow(disk_data) ==
    [size |-> disk_data.size_mb, description |-> DiskDescription(disk_data)]

\* One iteration of the loop over vcenter_disks.  existing_disks is the map
\* read before the loop; creating a name a second time violates the
\* datastore's (virtual_machine, name) uniqueness and raises.
SyncOneDisk(st, disk_data, existing_disks) ==
    IF st.raised THEN st
    ELSE IF disk_data.name \in DOMAIN existing_disks
    THEN IF st.disks[disk_data.name] # DiskRow(disk_data)
         THEN [st EXCEPT !.disks = With(@, disk_data.name, DiskRow(disk_data)),
                         !.writes = Append(@, <<"save", disk_data.name>>)]
         ELSE st
    ELSE IF disk_data.name \in DOMAIN st.disks
    THEN [st EXCEPT !.raised = TRUE]
    ELSE [st EXCEPT !.disks = With(@, disk_data.name, DiskRow(disk_data)),
                    !.writes = Append(@, <<"create", disk_data.name>>)]

RECURSIVE SyncDiskLoop(_, _, _, _)
SyncDiskLoop(st, vcenter_disks, i, existing_disks) ==
    IF i > Len(vcenter_disks) THEN st
    ELSE SyncDiskLoop(SyncOneDisk(st, vcenter_disks[i], existing_disks),
                      vcenter_disks, i + 1, existing_disks)

\* No disk is ever stale (a faulty variant).
NoStaleDisks(existing_disks, vcenter_disks) == {}

\* Disks that are no longer in vCenter are deleted.
StaleDisks(existing_disks, vcenter_disks) ==
    (DOMAIN existing_disks) \ {vcenter_disks[i].name : i \in DOMAIN vcenter_disks}

DeleteStale(st, existing_disks, vcenter_disks) ==
    IF st.raised THEN st
    ELSE LET stale == StaleDisks(existing_disks, vcenter_disks)
         IN  [st EXCEPT !.disks = [x \in (DOMAIN @) \ stale |-> @[x]],
                        !.writes = @ \o SetToSeq(stale, "delete")]

sync_vm_disks(vm_disks, vcenter_disks) ==
    IF vcenter_disks = << >>
    THEN [raised |-> FALSE, disks |-> << >>,
          writes |-> SetToSeq(DOMAIN vm_disks, "delete")]
    ELSE DeleteStale(
           SyncDiskLoop([raised |-> FALSE, disks |-> vm_disks, writes |-> << >>],
                        vcenter_disks, 1, vm_disks),
           vm_disks, vcenter_disks)

(***************************************************************************)
(* Apply engine: apply_changes.  db is the datastore inside the            *)
(* transaction: [vms, clusters, disks, nextId].  mem holds the in-memory   *)
(* entity objects of existing_vms, which the update loop mutates and       *)
(* saves; writes[n] lists the disk rows written for the entity n; saved    *)
(* lists the entities in the order their rows were written (each write of  *)
(* a row renews its last_updated).                                         *)
(* fault[n] names the call that raises while the entity n is       *)
(* processed ("none": no call does):                                       *)
(*   "cluster"  get_or_create_cluster (create, update)                     *)
(*   "create"   VirtualMachine.objects.create                              *)
(*   "save"     vm.save() (create, update, missing-mark)                   *)
(*   "disk"     sync_vm_disks                                              *)
(* crash names the statement outside every per-item guard that raises:     *)
(*   "count"    counting or listing the grouping's entities, before the    *)
(*              disk reconciliation                                        *)
(*   "commit"   the commit of the transaction, when the function returns   *)
(***************************************************************************)
FaultPoints == {"none", "cluster", "create", "save", "disk"}

CrashPoints == {"none", "count", "commit"}

NewResult == [created |-> 0, updated |-> 0, unchanged |-> 0, marked_missing |-> 0,
              errors |-> << >>, total_processed |-> 0, finished |-> FALSE]

NoWrites == [n \in Names |-> << >>]

\* An error message: its kind (the message's prefix) and the VM it names.
Error(kind, vm) == [kind |-> kind, vm |-> vm]

AddError(a, kind, vm) == [a EXCEPT !.result.errors = Append(@, Error(kind, vm))]

ResolveCluster(clusters, cluster_name, fault_here) ==
    IF fault_here THEN [raised |-> TRUE, id |-> 0, clusters |-> clusters]
    ELSE get_or_create_cluster(clusters, cluster_name, cluster_type_value,
                               cluster_group_name)

\* A create that ignores the power state (a faulty variant).
CreatedEntityActive(id, vm_data, cluster_id) ==
    [id |-> id, name |-> vm_data.name, cluster |-> cluster_id,
     status |-> "active",
     vcpus |-> vm_data.vcpus, memory |-> vm_data.memory, cf |-> EmptyCF]

\* VirtualMachine.objects.create(name, cluster, status, vcpus, memory)
CreatedEntity(id, vm_data, cluster_id) ==
    [id |-> id, name |-> vm_data.name, cluster |-> cluster_id,
     status |-> vcenter_status(vm_data),
     vcpus |-> vm_data.vcpus, memory |-> vm_data.memory, cf |-> EmptyCF]

\* A create that does not record vcenter_id (a faulty variant).
CreatedCFWithoutId(cf, vm_data, sync_time) ==
    [k \in CFKeys |->
        IF k = "last_synced" THEN sync_time
        ELSE IF k \in PlainFields \cup {"vcenter_cluster"} THEN vm_data[k]
        ELSE cf[k]]

\* The custom fields the create branch fills before vm.save().
CreatedCF(cf, vm_data, sync_time) ==
    [k \in CFKeys |->
        IF k = "last_synced" THEN sync_time
        ELSE IF k \in custom_fields \cup {"vcenter_cluster"} THEN vm_data[k]
        ELSE cf[k]]

\* A create that silently skips a name that exists by now (a faulty
\* variant).
CreateOneIfAbsent(a, vm_data, sync_time, fault) ==
    LET n == vm_data.name
        r == ResolveCluster(a.db.clusters,
                 expected_cluster_name(vm_data.vcenter_cluster, cluster_group_name),
                 fault[n] = "cluster")
    IN  IF r.raised THEN AddError(a, "create", n)
        ELSE LET a1 == [a EXCEPT !.db.clusters = r.clusters]
             IN  IF Exists(a1.db.vms, n) THEN a1
                 ELSE IF fault[n] = "create" THEN AddError(a1, "create", n)
                 ELSE LET vm == CreatedEntity(a1.db.nextId, vm_data, r.id)
                          a2 == [a1 EXCEPT !.db.vms[n] = vm,
                                           !.db.nextId = @ + 1,
                                           !.saved = Append(@, n)]
                      IN  IF fault[n] = "save" THEN AddError(a2, "create", n)
                          ELSE [a2 EXCEPT
                                  !.db.vms[n].cf = CreatedCF(vm.cf, vm_data, sync_time),
                                  !.result.created = @ + 1]

CreateOne(a, vm_data, sync_time, fault) ==
    LET n == vm_data.name
        r == ResolveCluster(a.db.clusters,
                 expected_cluster_name(vm_data.vcenter_cluster, cluster_group_name),
                 fault[n] = "cluster")
    IN  IF r.raised THEN AddError(a, "create", n)
        ELSE LET a1 == [a EXCEPT !.db.clusters = r.clusters]
             IN  IF fault[n] = "create" \/ Exists(a1.db.vms, n)
                 THEN AddError(a1, "create", n)
                 ELSE LET vm == CreatedEntity(a1.db.nextId, vm_data, r.id)
                          a2 == [a1 EXCEPT !.db.vms[n] = vm,
                                           !.db.nextId = @ + 1]
                          a3 == [a2 EXCEPT !.saved = Append(@, n)]
                      IN  IF fault[n] = "save" THEN AddError(a3, "create", n)
                          ELSE [a3 EXCEPT
                                  !.db.vms[n].cf = CreatedCF(vm.cf, vm_data, sync_time),
                                  !.result.created = @ + 1]

\* A create loop that gives up at the first error (a faulty variant).
RECURSIVE CreateLoopUntilError(_, _, _, _, _)
CreateLoopUntilError(a, to_create, i, sync_time, fault) ==
    IF i > Len(to_create) THEN a
    ELSE LET a1 == CreateOne(a, to_create[i], sync_time, fault)
         IN  IF Len(a1.result.errors) > Len(a.result.errors) THEN a1
             ELSE CreateLoopUntilError(a1, to_create, i + 1, sync_time, fault)

RECURSIVE CreateLoop(_, _, _, _, _)
CreateLoop(a, to_create, i, sync_time, fault) ==
    IF i > Len(to_create) THEN a
    ELSE CreateLoop(CreateOne(a, to_create[i], sync_time, fault),
                    to_create, i + 1, sync_time, fault)

\* The order of the entries of a change set (the dict's insertion order).
FieldOrder == <<"status", "vcenter_id", "vcenter_cluster", "vcpus", "memory",
                "ip_address", "tools_status", "vmtools_description",
                "vmtools_version_number">> \o os_fields

\* One entry of a change set applied to the in-memory object.
\* u = [raised, vm, clusters].
ApplyChange(u, f, change, fault_cluster) ==
    IF u.raised THEN u
    ELSE IF f = "vcenter_cluster"
    THEN LET r == ResolveCluster(u.clusters,
                      expected_cluster_name(change.new, cluster_group_name),
                      fault_cluster)
             vm1 == [u.vm EXCEPT !.cf["vcenter_cluster"] = change.new]
         IN  IF r.raised THEN [u EXCEPT !.raised = TRUE, !.vm = vm1]
             ELSE [u EXCEPT !.vm = [vm1 EXCEPT !.cluster = r.id],
                            !.clusters = r.clusters]
    ELSE IF f \in custom_fields
    THEN [u EXCEPT !.vm.cf[f] = change.new]
    ELSE [u EXCEPT !.vm[f] = change.new]

RECURSIVE ApplyChangesOf(_, _, _, _)
ApplyChangesOf(u, changes, i, fault_cluster) ==
    IF i > Len(FieldOrder) THEN u
    ELSE ApplyChangesOf(
           IF FieldOrder[i] \in DOMAIN changes
           THEN ApplyChange(u, FieldOrder[i], changes[FieldOrder[i]], fault_cluster)
           ELSE u,
           changes, i + 1, fault_cluster)

Stamp(vm, sync_time) == [vm EXCEPT !.cf["last_synced"] = sync_time]

UpdateOne(a, item, sync_time, fault) ==
    LET n == item.vm
        u == ApplyChangesOf([raised |-> FALSE, vm |-> a.mem[n],
                             clusters |-> a.db.clusters],
                            item.changes, 1, fault[n] = "cluster")
        a1 == [a EXCEPT !.db.clusters = u.clusters]
    IN  IF u.raised
        THEN AddError([a1 EXCEPT !.mem[n] = u.vm], "update", n)
        ELSE LET vm == Stamp(u.vm, sync_time)
                 a2 == [a1 EXCEPT !.mem[n] = vm]
             IN  IF fault[n] = "save" THEN AddError(a2, "update", n)
                 ELSE [a2 EXCEPT !.db.vms[n] = vm, !.result.updated = @ + 1,
                                 !.saved = Append(@, n)]

\* An update loop that stops at its first error (a faulty variant).
RECURSIVE UpdateLoopUntilError(_, _, _, _, _)
UpdateLoopUntilError(a, to_update, i, sync_time, fault) ==
    IF i > Len(to_update) THEN a
    ELSE LET a1 == UpdateOne(a, to_update[i], sync_time, fault)
         IN  IF Len(a1.result.errors) > Len(a.result.errors) THEN a1
             ELSE UpdateLoopUntilError(a1, to_update, i + 1, sync_time, fault)

RECURSIVE UpdateLoop(_, _, _, _, _)
UpdateLoop(a, to_update, i, sync_time, fault) ==
    IF i > Len(to_update) THEN a
    ELSE UpdateLoop(UpdateOne(a, to_update[i], sync_time, fault),
                    to_update, i + 1, sync_time, fault)

\* Skipped entities saved again with a renewed stamp (a faulty variant).
ResaveSkipped(a, to_skip) ==
    [a EXCEPT !.result.unchanged = Len(to_skip),
              !.db.vms = [n \in Names |->
                            IF \E j \in DOMAIN to_skip : to_skip[j] = n
                            THEN [@[n] EXCEPT !.cf["last_synced"] = @ + 1]
                            ELSE @[n]]]

\* result.unchanged = len(diff.to_skip)
CountSkipped(a, to_skip) == [a EXCEPT !.result.unchanged = Len(to_skip)]

\* A bulk delete of the missing rows (a faulty variant).
BulkDelete(db_vms, missing_ids) ==
    [n \in Names |->
        IF Exists(db_vms, n) /\ db_vms[n].id \in missing_ids THEN NoVM ELSE db_vms[n]]

\* A bulk update that matches no row (a faulty variant).
BulkFailNobody(db_vms, missing_ids) == db_vms

\* VirtualMachine.objects.filter(id__in=missing_ids).update(status='failed')
BulkFail(db_vms, missing_ids) ==
    [n \in Names |->
        IF Exists(db_vms, n) /\ db_vms[n].id \in missing_ids
        THEN [db_vms[n] EXCEPT !.status = "failed"] ELSE db_vms[n]]

\* The re-stamping loop over the freshly read missing entities; the first
\* save that raises ends the loop.  m = [raised, vms].
RECURSIVE StampMissing(_, _, _, _, _)
StampMissing(m, missing_ids, i, sync_time, fault) ==
    IF i > Len(NameSeq) \/ m.raised THEN m
    ELSE LET n == NameSeq[i]
         IN  StampMissing(
               IF Exists(m.vms, n) /\ m.vms[n].id \in missing_ids
               THEN IF fault[n] = "save" THEN [m EXCEPT !.raised = TRUE]
                    ELSE [m EXCEPT !.vms[n] = Stamp(@, sync_time),
                                   !.saved = Append(@, n)]
               ELSE m,
               missing_ids, i + 1, sync_time, fault)

MarkMissing(a, to_mark_missing, sync_time, fault) ==
    LET missing_ids == {a.mem[to_mark_missing[i]].id : i \in DOMAIN to_mark_missing}
        m == StampMissing([raised |-> FALSE, vms |-> BulkFail(a.db.vms, missing_ids),
                           saved |-> a.saved],
                          missing_ids, 1, sync_time, fault)
        a1 == [a EXCEPT !.db.vms = m.vms, !.saved = m.saved]
    IN  IF to_mark_missing = << >> THEN a
        ELSE IF m.raised THEN AddError(a1, "mark", None)
        ELSE [a1 EXCEPT !.result.marked_missing = Len(to_mark_missing)]

\* vcenter_vms_dict: the last description of each name.
HasDescription(vcenter_vms, n) == \E i \in DOMAIN vcenter_vms : vcenter_vms[i].name = n

DescriptionOf(vcenter_vms, n) ==
    vcenter_vms[CHOOSE i \in DOMAIN vcenter_vms :
                   /\ vcenter_vms[i].name = n
                   /\ \A j \in DOMAIN vcenter_vms : vcenter_vms[j].name = n => j <= i]

\* VirtualMachine.objects.filter(cluster__group=cluster_group)
InClusterGroup(db, n) ==
    /\ Exists(db.vms, n)
    /\ db.clusters[db.vms[n].cluster].group = cluster_group_name

\* A reconciliation of the entities the run wrote only (a faulty variant).
DisksOneIfSaved(a, n, vcenter_vms, fault) ==
    IF ~ (InClusterGroup(a.db, n) /\ HasDescription(vcenter_vms, n)
            /\ \E k \in DOMAIN a.saved : a.saved[k] = n) THEN a
    ELSE IF fault[n] = "disk" THEN AddError(a, "disk", n)
    ELSE LET r == sync_vm_disks(a.db.disks[n], DescriptionOf(vcenter_vms, n).disks)
             a1 == [a EXCEPT !.db.disks[n] = r.disks, !.writes[n] = r.writes]
         IN  IF r.raised THEN AddError(a1, "disk", n) ELSE a1

\* A reconciliation that takes a missing description for an empty disk
\* list (a faulty variant).
DisksOneOrClear(a, n, vcenter_vms, fault) ==
    IF ~ InClusterGroup(a.db, n) THEN a
    ELSE IF fault[n] = "disk" THEN AddError(a, "disk", n)
    ELSE LET r == sync_vm_disks(a.db.disks[n],
                                IF HasDescription(vcenter_vms, n)
                                THEN DescriptionOf(vcenter_vms, n).disks ELSE << >>)
             a1 == [a EXCEPT !.db.disks[n] = r.disks, !.writes[n] = r.writes]
         IN  IF r.raised THEN AddError(a1, "disk", n) ELSE a1

DisksOne(a, n, vcenter_vms, fault) ==
    IF ~ (InClusterGroup(a.db, n) /\ HasDescription(vcenter_vms, n)) THEN a
    ELSE IF fault[n] = "disk" THEN AddError(a, "disk", n)
    ELSE LET r == sync_vm_disks(a.db.disks[n], DescriptionOf(vcenter_vms, n).disks)
             a1 == [a EXCEPT !.db.disks[n] = r.disks, !.writes[n] = r.writes]
         IN  IF r.raised THEN AddError(a1, "disk", n) ELSE a1

RECURSIVE DiskLoop(_, _, _, _)
DiskLoop(a, i, vcenter_vms, fault) ==
    IF i > Len(NameSeq) THEN a
    ELSE DiskLoop(DisksOne(a, NameSeq[i], vcenter_vms, fault), i + 1, vcenter_vms, fault)

\* A total that also counts the missing entities (a faulty variant).
CountProcessedAndMissing(a, diff) ==
    [a EXCEPT !.result.total_processed =
                 Len(diff.to_create) + Len(diff.to_update) + Len(diff.to_skip)
                    + Len(diff.to_mark_missing)]

CountProcessed(a, diff) ==
    [a EXCEPT !.result.total_processed =
                 Len(diff.to_create) + Len(diff.to_update) + Len(diff.to_skip)]

\* The entity-level phases, in the order of the code.
EntityPhases(a, diff, sync_time, fault) ==
    MarkMissing(
      CountSkipped(
        UpdateLoop(
          CreateLoop(a, diff.to_create, 1, sync_time, fault),
          diff.to_update, 1, sync_time, fault),
        diff.to_skip),
      diff.to_mark_missing, sync_time, fault)

\* The function without its transaction: what was written before the
\* exception stays (a faulty variant).
ApplyWithoutTransaction(db, diff, result, existing_vms, vcenter_vms, sync_time, fault, crash) ==
    LET a0 == [db |-> db, mem |-> existing_vms, result |-> result,
               writes |-> NoWrites, saved |-> << >>]
        a1 == EntityPhases(a0, diff, sync_time, fault)
        a2 == CountProcessed(DiskLoop(a1, 1, vcenter_vms, fault), diff)
    IN  IF crash = "count"
        THEN [raised |-> TRUE, db |-> a1.db, result |-> a1.result,
              writes |-> NoWrites, saved |-> a1.saved]
        ELSE [raised |-> crash = "commit", db |-> a2.db, result |-> a2.result,
              writes |-> a2.writes, saved |-> a2.saved]

\* @transaction.atomic: an exception that leaves the function rolls the
\* datastore back; the result object keeps what was written to it.
apply_changes(db, diff, result, existing_vms, vcenter_vms, sync_time, fault, crash) ==
    LET a0 == [db |-> db, mem |-> existing_vms, result |-> result,
               writes |-> NoWrites, saved |-> << >>]
        a1 == EntityPhases(a0, diff, sync_time, fault)
        a2 == CountProcessed(DiskLoop(a1, 1, vcenter_vms, fault), diff)
    IN  IF crash = "count"
        THEN [raised |-> TRUE, db |-> db, result |-> a1.result, writes |-> NoWrites,
              saved |-> << >>]
        ELSE IF crash = "commit"
        THEN [raised |-> TRUE, db |-> db, result |-> a2.result, writes |-> NoWrites,
              saved |-> << >>]
        ELSE [raised |-> FALSE, db |-> a2.db, result |-> a2.result,
              writes |-> a2.writes, saved |-> a2.saved]

(***************************************************************************)
(* Inputs of the model: what vCenter may report, and what the datastore    *)
(* may hold before the first run.                                          *)
(***************************************************************************)
DescKeys == {"name", "state", "vcenter_id", "vcenter_cluster", "vcpus", "memory",
             "disks"} \cup PlainFields

Disk(name, size_mb, thin, file_name) ==
    [name |-> name, size_mb |-> size_mb, type |-> "FlatVer2",
     thin_provisioned |-> thin, file_name |-> file_name]

RichDisks == <<Disk("Hard disk 1", 10, "True", "[ds1] a.vmdk"),
               Disk("Hard disk 2", 30, "False", None)>>

\* A VM as vCenter reports it.  A rich description carries an instance
\* uuid, hardware, guest information and disks; a bare one carries none.
Description(n, state, hint, rich) ==
    [k \in DescKeys |->
        CASE k = "name" -> n
          [] k = "state" -> state
          [] k = "vcenter_cluster" -> hint
          [] k = "vcenter_id" -> IF rich THEN "uuid-" \o n ELSE ""
          [] k = "vcpus" -> IF rich THEN "2" ELSE None
          [] k = "memory" -> IF rich THEN "4096" ELSE None
          [] k = "disks" -> IF rich THEN RichDisks ELSE << >>
          [] OTHER -> IF rich THEN "guest-" \o k ELSE None]

\* The descriptions vCenter may give of one VM: a running VM of cluster cl-a
\* with guest information, the same powered off, the same outside any
\* cluster, and a bare powered-off VM outside any cluster.
DescriptionsOf(n) ==
    {Description(n, "running", "cl-a", TRUE),
     Description(n, "stopped", "cl-a", TRUE),
     Description(n, "running", None, TRUE),
     Description(n, "stopped", None, FALSE)}

\* The lists get_vcenter_vms() may return: at most one description per name.
RECURSIVE ListsFrom(_)
ListsFrom(i) ==
    IF i > Len(NameSeq) THEN {<< >>}
    ELSE LET rest == ListsFrom(i + 1)
         IN  rest \cup {<<d>> \o r : d \in DescriptionsOf(NameSeq[i]), r \in rest}

DesiredLists == ListsFrom(1)

\* Clusters that exist before the first run: the legacy cluster of entities
\* entered by hand, alone or with clusters named like a vCenter cluster that
\* belong to other groups.
LegacyCluster == [name |-> "vcenter_obu", type |-> "legacy", group |-> None,
                  status |-> "active"]

ForeignCluster(group) == [name |-> "cl-a", type |-> "legacy", group |-> group,
                          status |-> "active"]

InitClusterTables ==
    {<<LegacyCluster>>,
     <<LegacyCluster, ForeignCluster("site-b")>>,
     <<LegacyCluster, ForeignCluster("site-b"), ForeignCluster(None)>>}

\* An entity entered by hand: in the legacy cluster, with no custom field
\* set by a synchronisation.
ManualEntity(i, status) ==
    [id |-> i, name |-> NameSeq[i], cluster |-> 1, status |-> status,
     vcpus |-> None, memory |-> None,
     cf |-> [EmptyCF EXCEPT !["obu_services"] = "svc"]]

\* What the datastore may hold of a VM before the first run: nothing, or
\* an entity entered by hand (the first VM's possibly failed).
InitEntities(i) ==
    {NoVM, ManualEntity(i, "active")}
        \cup (IF i = 1 THEN {ManualEntity(i, "failed")} ELSE {})

ManualDisks == [x \in {"Hard disk 1"} |-> [size |-> 20, description |-> << >>]]

NoSchema == [cluster_type |-> FALSE, cluster_group |-> FALSE, custom_fields |-> FALSE]

(***************************************************************************)
(* State.                                                                  *)
(***************************************************************************)
VARIABLES
    vms,          \* VirtualMachine table: name -> entity or NoVM
    clusters,     \* Cluster table
    disks,        \* VirtualDisk rows of each entity
    nextId,       \* next primary key of VirtualMachine
    last_updated, \* when each entity's row was last written (a clock of writes)
    sync_status,  \* what the last call of get_sync_status returned
    rival,        \* a second run of sync_vcenter_vms, started by another worker
    schema,       \* which prerequisites exist: ClusterType, ClusterGroup, CustomFields
    pc,           \* position of sync_vcenter_vms: idle, fetched, planned, done
    ended,        \* where the run ended: probe, prepare, diff, apply (a failure), ok
    runs,         \* runs started so far; the clock of timezone.now()
    connected,    \* what test_vcenter_connection() returned in this run
    vcenter_vms,  \* the list fetched by this run
    existing_vms, \* the entities read by this run
    diff,         \* the plan of this run
    result,       \* the SyncResult of this run
    outcome,      \* how the call ended: none, returned, raised
    pre,          \* history: the datastore when apply_changes was entered
    fault,        \* history: the calls that raised in apply_changes
    injected,     \* history: the failures injected so far
    stable,       \* history: the last run ended with no error
    written,      \* history: the disk rows the last apply wrote, by entity
    afterClean    \* history: this run fetched the list of a preceding clean run

dbvars == <<vms, clusters, disks, nextId, last_updated>>
runvars == <<connected, vcenter_vms, existing_vms, diff, result, ended>>
histvars == <<pre, fault, injected, stable, written, afterClean>>
vars == <<dbvars, schema, pc, runs, runvars, outcome, histvars, sync_status, rival>>

\* last_updated after the rows of the entities in saved were written, in
\* that order.
Latest(lu) == CHOOSE t \in {lu[n] : n \in Names} : \A n \in Names : lu[n] <= t

RECURSIVE Touch(_, _, _)
Touch(lu, saved, i) ==
    IF i > Len(saved) THEN lu
    ELSE Touch([lu EXCEPT ![saved[i]] = Latest(lu) + 1], saved, i + 1)

\* Entities entered by hand were written in the order of their ids.
EnteredInOrder(v) == [n \in Names |-> IF Exists(v, n) THEN v[n].id ELSE NoTime]

\* No call of get_sync_status was made.
NoStatus == [total_vms |-> 0, active_vms |-> 0, offline_vms |-> 0, failed_vms |-> 0,
             vcenter_available |-> FALSE, last_sync |-> NoTime, cluster_count |-> 0,
             called |-> FALSE]

\* The locals of a second run that has not started.
NoRival == [pc |-> "idle", vcenter_vms |-> << >>,
            existing_vms |-> [n \in Names |-> NoVM], diff |-> EmptyDiff,
            result |-> NewResult, time |-> NoTime]

DB == [vms |-> vms, clusters |-> clusters, disks |-> disks, nextId |-> nextId]

NoFault == [n \in Names |-> "none"]

\* Only the entities of the default cluster group are read (a faulty
\* variant).
ReadExistingInGroup(db) ==
    [n \in Names |-> IF InClusterGroup(db, n) THEN db.vms[n] ELSE NoVM]

\* existing_vms: {vm.name: vm for vm in VirtualMachine.objects.all()}, the
\* entities of every cluster.
ReadExisting(db) == db.vms

Init ==
    /\ vms \in {v \in [Names -> UNION {InitEntities(i) : i \in DOMAIN NameSeq}] :
                   \A i \in DOMAIN NameSeq : v[NameSeq[i]] \in InitEntities(i)}
    /\ clusters \in InitClusterTables
    /\ disks = [n \in Names |-> IF Exists(vms, n) THEN ManualDisks ELSE << >>]
    /\ nextId = Len(NameSeq) + 1
    /\ last_updated = EnteredInOrder(vms)
    /\ sync_status = NoStatus
    /\ rival = NoRival
    /\ schema = NoSchema
    /\ pc = "idle"
    /\ ended = "none"
    /\ runs = 0
    /\ connected = FALSE
    /\ vcenter_vms = << >>
    /\ existing_vms = [n \in Names |-> NoVM]
    /\ diff = EmptyDiff
    /\ result = NewResult
    /\ outcome = "none"
    /\ pre = DB
    /\ fault = NoFault
    /\ injected = 0
    /\ stable = FALSE
    /\ written = NoWrites
    /\ afterClean = FALSE

(***************************************************************************)
(* sync_vcenter_vms, phase 1: probe, prerequisites, fetch, read.           *)
(***************************************************************************)
\* Only the apply guarded (a faulty variant).
OnlyApplyGuarded(phase) == phase = "apply"

\* The try/except blocks of sync_vcenter_vms: an exception raised in a
\* guarded phase becomes an error entry of the result.
PhaseGuarded(phase) == phase \in {"prepare", "diff", "apply"}

CanStart == pc \in {"idle", "done"} /\ runs < MaxRuns

CanFail == injected < MaxFaults

\* The run ends: result.finish() and return, or the exception leaves.
EndRun(phase, res, kind) ==
    /\ pc' = "done"
    /\ ended' = phase
    /\ IF PhaseGuarded(phase)
       THEN /\ result' = [res EXCEPT !.errors = Append(@, Error(kind, None)),
                                     !.finished = TRUE]
            /\ outcome' = "returned"
       ELSE /\ result' = res
            /\ outcome' = "raised"

\* The locals of a run that ended before its apply are dropped.
ResetRun ==
    /\ vcenter_vms' = << >>
    /\ existing_vms' = [n \in Names |-> NoVM]
    /\ diff' = EmptyDiff
    /\ pre' = DB
    /\ fault' = NoFault
    /\ stable' = FALSE
    /\ written' = NoWrites
    /\ afterClean' = FALSE
    /\ injected' = injected + 1

AllSchema == [cluster_type |-> TRUE, cluster_group |-> TRUE, custom_fields |-> TRUE]

\* A probe made after the prerequisites were created (a faulty variant).
ProbeAfterPrerequisites ==
    /\ CanStart /\ CanFail
    /\ runs' = runs + 1
    /\ connected' = FALSE
    /\ result' = [NewResult EXCEPT !.errors = <<Error("connect", None)>>,
                                   !.finished = TRUE]
    /\ outcome' = "returned"
    /\ pc' = "done"
    /\ ended' = "probe"
    /\ ResetRun
    /\ schema' = AllSchema
    /\ UNCHANGED <<sync_status, rival, dbvars>>

\* test_vcenter_connection() returns False: one error, finish, return.
ProbeFails ==
    /\ CanStart /\ CanFail
    /\ runs' = runs + 1
    /\ connected' = FALSE
    /\ result' = [NewResult EXCEPT !.errors = <<Error("connect", None)>>,
                                   !.finished = TRUE]
    /\ outcome' = "returned"
    /\ pc' = "done"
    /\ ended' = "probe"
    /\ ResetRun
    /\ UNCHANGED <<sync_status, rival, dbvars, schema>>

\* The prerequisites that exist when the phase raises at the given stage.
PrepareStages == <<"cluster_type", "cluster_group", "custom_fields", "fetch">>

SchemaBefore(stage) ==
    [cluster_type |-> schema.cluster_type \/ stage # "cluster_type",
     cluster_group |-> schema.cluster_group \/ stage \notin {"cluster_type", "cluster_group"},
     custom_fields |-> schema.custom_fields \/ stage = "fetch"]

\* An exception in phase 1 after the probe: get_or_create of a
\* prerequisite, the configuration lookup or get_vcenter_vms() raises.
PrepareFails ==
    /\ CanStart /\ CanFail
    /\ \E i \in DOMAIN PrepareStages : schema' = SchemaBefore(PrepareStages[i])
    /\ runs' = runs + 1
    /\ connected' = TRUE
    /\ EndRun("prepare", NewResult, "fetch")
    /\ ResetRun
    /\ UNCHANGED <<sync_status, rival, dbvars>>

\* Phase 1 succeeds: the list is fetched and every entity is read.
Fetch ==
    /\ CanStart
    /\ \E l \in DesiredLists :
          /\ vcenter_vms' = l
          /\ afterClean' = (stable /\ pc = "done" /\ l = vcenter_vms)
    /\ runs' = runs + 1
    /\ connected' = TRUE
    /\ schema' = AllSchema
    /\ existing_vms' = ReadExisting(DB)
    /\ diff' = EmptyDiff
    /\ result' = NewResult
    /\ outcome' = "none"
    /\ pc' = "fetched"
    /\ ended' = "none"
    /\ pre' = DB
    /\ fault' = NoFault
    /\ stable' = FALSE
    /\ written' = NoWrites
    /\ UNCHANGED <<sync_status, rival, dbvars, injected>>

(***************************************************************************)
(* Phase 2: calculate_diff.                                                *)
(***************************************************************************)
\* A diff phase whose failure is recorded without ending the run (a faulty
\* variant).
DiffFallsThrough ==
    /\ pc = "fetched"
    /\ \E raises \in BOOLEAN :
          IF raises
          THEN /\ CanFail
               /\ \E i \in DOMAIN vcenter_vms : Exists(existing_vms, vcenter_vms[i].name)
               /\ result' = [result EXCEPT !.errors = Append(@, Error("diff", None))]
               /\ diff' = EmptyDiff
               /\ pc' = "planned"
               /\ injected' = injected + 1
               /\ UNCHANGED <<outcome, ended, vcenter_vms, existing_vms, pre, fault,
                              stable, written, afterClean>>
          ELSE /\ diff' = calculate_diff(vcenter_vms, existing_vms,
                                         cluster_group_name, clusters)
               /\ pc' = "planned"
               /\ UNCHANGED <<result, outcome, ended, vcenter_vms, existing_vms, histvars>>
    /\ UNCHANGED <<sync_status, rival, dbvars, schema, runs, connected>>

\* raises: reading a matched entity's cluster fails (the query of the lazy
\* reference vm.cluster), which needs a matched entity.
Diff ==
    /\ pc = "fetched"
    /\ \E raises \in BOOLEAN :
          IF raises
          THEN /\ CanFail
               /\ \E i \in DOMAIN vcenter_vms : Exists(existing_vms, vcenter_vms[i].name)
               /\ EndRun("diff", result, "diff")
               /\ ResetRun
          ELSE /\ diff' = calculate_diff(vcenter_vms, existing_vms,
                                         cluster_group_name, clusters)
               /\ pc' = "planned"
               /\ UNCHANGED <<result, outcome, ended, vcenter_vms, existing_vms, histvars>>
    /\ UNCHANGED <<sync_status, rival, dbvars, schema, runs, connected>>

(***************************************************************************)
(* Phase 3: apply_changes in its transaction, then finish.                 *)
(***************************************************************************)
\* A fault is drawn only where the call it names is made.
Injected(f, crash) ==
    Cardinality({n \in Names : f[n] # "none"}) + (IF crash # "none" THEN 1 ELSE 0)

Applicable(f, d) ==
    \A n \in Names :
       \/ f[n] = "none"
       \/ f[n] \in {"cluster", "create"}
            /\ \E i \in DOMAIN d.to_create : d.to_create[i].name = n
       \/ f[n] = "cluster"
            /\ \E i \in DOMAIN d.to_update :
                  d.to_update[i].vm = n /\ "vcenter_cluster" \in DOMAIN d.to_update[i].changes
       \/ f[n] = "save"
            /\ \/ \E i \in DOMAIN d.to_create : d.to_create[i].name = n
               \/ \E i \in DOMAIN d.to_update : d.to_update[i].vm = n
               \/ \E i \in DOMAIN d.to_mark_missing : d.to_mark_missing[i] = n
       \/ f[n] = "disk" /\ HasDescription(vcenter_vms, n)

Commit(db) ==
    /\ vms' = db.vms
    /\ clusters' = db.clusters
    /\ disks' = db.disks
    /\ nextId' = db.nextId

Apply ==
    /\ pc = "planned"
    /\ \E f \in [Names -> FaultPoints], crash \in CrashPoints :
          /\ Applicable(f, diff)
          /\ injected + Injected(f, crash) <= MaxFaults
          /\ injected' = injected + Injected(f, crash)
          /\ fault' = f
          /\ LET r == apply_changes(DB, diff, result, existing_vms, vcenter_vms,
                                    runs, f, crash)
             IN  /\ Commit(r.db)
                 /\ last_updated' = Touch(last_updated, r.saved, 1)
                 /\ written' = r.writes
                 /\ IF r.raised
                    THEN EndRun("apply", r.result, "apply")
                    ELSE /\ result' = [r.result EXCEPT !.finished = TRUE]
                         /\ outcome' = "returned"
                         /\ pc' = "done"
                         /\ ended' = "ok"
    /\ pre' = DB
    /\ stable' = (result'.errors = << >> /\ outcome' = "returned")
    /\ UNCHANGED <<schema, runs, connected, vcenter_vms, existing_vms, diff, afterClean,
                   sync_status, rival>>

Next == ProbeFails \/ PrepareFails \/ Fetch \/ Diff \/ Apply

Spec == Init /\ [][Next]_vars

(***************************************************************************)
(* The planner on its own: calculate_diff applied to every pair of a list  *)
(* and a datastore of entities entered by hand or left by an earlier       *)
(* synchronisation (in their cluster or still in the legacy cluster,       *)
(* possibly failed since).                                                 *)
(***************************************************************************)
SyncedClusters ==
    <<LegacyCluster,
      NewCluster("cl-a", cluster_type_value, cluster_group_name),
      NewCluster(cluster_group_name, cluster_type_value, cluster_group_name)>>

SyncedClusterId(d) == IF Truthy(d.vcenter_cluster) THEN 2 ELSE 3

SyncedEntity(i, d, cluster_id, status) ==
    [CreatedEntity(i, d, cluster_id) EXCEPT
        !.status = status, !.cf = CreatedCF(EmptyCF, d, 1)]

SyncedEntities(i) ==
    {SyncedEntity(i, d, c, st) :
        d \in DescriptionsOf(NameSeq[i]), c \in {1, 2, 3}, st \in {"active", "offline", "failed"}}

PlannerEntities(i) ==
    {NoVM, ManualEntity(i, "active"),
     \* entered by hand into the cluster "cl-a", with no stored hint
     [ManualEntity(i, "active") EXCEPT !.cluster = 2]}
        \cup {e \in SyncedEntities(i) :
                \E d \in DescriptionsOf(NameSeq[i]) :
                   /\ e = SyncedEntity(i, d, e.cluster, e.status)
                   /\ e.cluster \in {1, SyncedClusterId(d)}
                   /\ e.status \in {vcenter_status(d), "failed"}}

InitDiff ==
    /\ vms \in {v \in [Names -> UNION {PlannerEntities(i) : i \in DOMAIN NameSeq}] :
                   \A i \in DOMAIN NameSeq : v[NameSeq[i]] \in PlannerEntities(i)}
    /\ clusters = SyncedClusters
    /\ disks = [n \in Names |-> << >>]
    /\ nextId = Len(NameSeq) + 1
    /\ last_updated = EnteredInOrder(vms)
    /\ sync_status = NoStatus
    /\ rival = NoRival
    /\ schema = AllSchema
    /\ pc = "fetched"
    /\ ended = "none"
    /\ runs = 1
    /\ connected = TRUE
    /\ vcenter_vms \in DesiredLists
    /\ existing_vms = vms
    /\ diff = EmptyDiff
    /\ result = NewResult
    /\ outcome = "none"
    /\ pre = DB
    /\ fault = NoFault
    /\ injected = 0
    /\ stable = FALSE
    /\ written = NoWrites
    /\ afterClean = FALSE

NextDiff == Diff

SpecDiff == InitDiff /\ [][NextDiff]_vars

(***************************************************************************)
(* Disk reconciliation on its own: sync_vm_disks applied to the first      *)
(* VM's disk rows and a disk list with unique names.                       *)
(***************************************************************************)
DiskNames == <<"Hard disk 1", "Hard disk 2", "Hard disk 3">>

DiskChoices(name) ==
    {Disk(name, 10, "True", None), Disk(name, 20, "True", None),
     Disk(name, 10, "absent", "[ds1] x.vmdk")}

RECURSIVE DiskListsFrom(_)
DiskListsFrom(i) ==
    IF i > Len(DiskNames) THEN {<< >>}
    ELSE LET rest == DiskListsFrom(i + 1)
         IN  rest \cup {<<d>> \o r : d \in DiskChoices(DiskNames[i]), r \in rest}

DiskLists == DiskListsFrom(1)

RowsOf(l) ==
    [x \in {l[i].name : i \in DOMAIN l} |->
        DiskRow(l[CHOOSE i \in DOMAIN l : l[i].name = x])]

DiskOwner == NameSeq[1]

InitDisks ==
    /\ vms = [n \in Names |-> IF n = DiskOwner THEN ManualEntity(1, "active") ELSE NoVM]
    /\ clusters = <<LegacyCluster>>
    /\ disks \in {[n \in Names |-> IF n = DiskOwner THEN RowsOf(l) ELSE << >>] :
                     l \in DiskLists}
    /\ nextId = Len(NameSeq) + 1
    /\ last_updated = EnteredInOrder(vms)
    /\ sync_status = NoStatus
    /\ rival = NoRival
    /\ schema = AllSchema
    /\ pc = "idle"
    /\ ended = "none"
    /\ runs = 0
    /\ connected = TRUE
    /\ vcenter_vms = << >>
    /\ existing_vms = vms
    /\ diff = EmptyDiff
    /\ result = NewResult
    /\ outcome = "none"
    /\ pre = DB
    /\ fault = NoFault
    /\ injected = 0
    /\ stable = FALSE
    /\ written = NoWrites
    /\ afterClean = FALSE

\* One call sync_vm_disks(vm, vcenter_disks); vcenter_vms keeps the
\* description the list came from, pre the rows before the call.
SyncDisks ==
    /\ \E l \in DiskLists :
          LET r == sync_vm_disks(disks[DiskOwner], l)
          IN  /\ ~ r.raised
              /\ disks' = [disks EXCEPT ![DiskOwner] = r.disks]
              /\ written' = [NoWrites EXCEPT ![DiskOwner] = r.writes]
              /\ vcenter_vms' = <<[Description(DiskOwner, "running", None, TRUE)
                                     EXCEPT !.disks = l]>>
    /\ pre' = DB
    /\ UNCHANGED <<vms, clusters, nextId, last_updated, sync_status, rival, schema, pc, ended, runs, connected,
                   existing_vms, diff, result, outcome, fault, injected, stable,
                   afterClean>>

NextDisks == SyncDisks

SpecDisks == InitDisks /\ [][NextDisks]_vars

(***************************************************************************)
(* Properties.                                                             *)
(***************************************************************************)
InSeq(s, x) == \E i \in DOMAIN s : s[i] = x

\* The status the specification derives from a power state.
DerivedStatus(d) == IF d.state = "running" THEN "active" ELSE "offline"

\* The cluster name the specification derives from a description.
DerivedCluster(d) ==
    IF d.vcenter_cluster \in {None, ""} THEN cluster_group_name ELSE d.vcenter_cluster

\* C1 -- Idempotence: a run that fetched the list of the run before it,
\* which ended with no error and committed, plans every desired VM as
\* unchanged and reports created = updated = marked_missing = 0 and
\* unchanged = the number of desired VMs.
Idempotence ==
    (afterClean /\ pc \in {"planned", "done"}) =>
        /\ Len(diff.to_skip) = Len(vcenter_vms)
        /\ \A i \in DOMAIN vcenter_vms : InSeq(diff.to_skip, vcenter_vms[i].name)
        /\ diff.to_create = << >> /\ diff.to_update = << >>
        /\ pc = "done" =>
              /\ result.created = 0
              /\ result.updated = 0
              /\ result.marked_missing = 0
              /\ result.unchanged = Len(vcenter_vms)

\* A second run over two VMs that the first run created or updated.
IdempotenceWitness ==
    /\ pc = "done" /\ afterClean /\ ended = "ok" /\ runs = 2
    /\ Len(vcenter_vms) = 2
    /\ \A n \in Names : Exists(vms, n) /\ vms[n].cf["last_synced"] = 1
    /\ result.unchanged = 2

\* C2 -- Convergence: after a run that completes with an empty error list,
\* every entity named in the desired list has the status, vcpus, memory, ip
\* address, tools and OS values of its description and a cluster named by
\* the hint (the default grouping name without a hint); every other entity
\* has status failed.
Convergence ==
    (pc = "done" /\ ended = "ok" /\ result.errors = << >>) =>
        \A n \in Names : Exists(vms, n) =>
            IF \E i \in DOMAIN vcenter_vms : vcenter_vms[i].name = n
            THEN \A i \in DOMAIN vcenter_vms : vcenter_vms[i].name = n =>
                    LET d == vcenter_vms[i]
                    IN  /\ vms[n].status = DerivedStatus(d)
                        /\ vms[n].vcpus = d.vcpus
                        /\ vms[n].memory = d.memory
                        /\ \A f \in PlainFields : vms[n].cf[f] = d[f]
                        /\ clusters[vms[n].cluster].name = DerivedCluster(d)
            ELSE vms[n].status = "failed"

\* A clean run that updated one entity and marked the other missing.
ConvergenceWitness ==
    /\ pc = "done" /\ ended = "ok" /\ result.errors = << >>
    /\ result.updated = 1 /\ result.marked_missing = 1
    /\ \E n \in Names : Exists(vms, n) /\ vms[n].status = "failed"
                        /\ pre.vms[n].status = "active"

\* C3 -- Name-keyed matching: an item of the desired list is in to_create
\* iff its name is not a key of existing_vms; otherwise the matched entity
\* is in to_update (with the changes) iff get_field_changes is non-empty,
\* and in to_skip iff it is empty.
NameKeyedMatching ==
    pc = "planned" =>
        \A i \in DOMAIN vcenter_vms :
            LET d == vcenter_vms[i]
                n == d.name
            IN  /\ InSeq(diff.to_create, d) <=> existing_vms[n] = NoVM
                /\ existing_vms[n] # NoVM =>
                      LET ch == get_field_changes(existing_vms[n], d,
                                                  cluster_group_name, clusters)
                      IN  /\ (\E j \in DOMAIN diff.to_update : diff.to_update[j].vm = n)
                                <=> DOMAIN ch # {}
                          /\ DOMAIN ch # {} =>
                                InSeq(diff.to_update, [vm |-> n, changes |-> ch])
                          /\ InSeq(diff.to_skip, n) <=> DOMAIN ch = {}

\* A plan with one entity to update and one to skip.
NameKeyedMatchingWitness ==
    /\ pc = "planned"
    /\ Len(diff.to_update) = 1 /\ Len(diff.to_skip) = 1
    /\ diff.to_create = << >>

\* C4 -- Revival: for a failed entity and a description of its name,
\* get_field_changes holds a status entry with old = failed and new = the
\* derived status, whatever the other fields are; the entity is in
\* to_update and not in to_skip.
Revival ==
    pc \in {"fetched", "planned"} =>
        \A i \in DOMAIN vcenter_vms :
            LET d == vcenter_vms[i]
                n == d.name
            IN  (existing_vms[n] # NoVM /\ existing_vms[n].status = "failed") =>
                   LET ch == get_field_changes(existing_vms[n], d,
                                               cluster_group_name, clusters)
                   IN  /\ "status" \in DOMAIN ch
                       /\ ch["status"] = [old |-> "failed", new |-> DerivedStatus(d)]
                       /\ pc = "planned" =>
                             /\ \E j \in DOMAIN diff.to_update : diff.to_update[j].vm = n
                             /\ ~ InSeq(diff.to_skip, n)

\* A failed entity that differs from its description in nothing but the
\* status is planned for an update.
RevivalWitness ==
    /\ pc = "planned"
    /\ \E j \in DOMAIN diff.to_update :
          /\ DOMAIN diff.to_update[j].changes = {"status"}
          /\ diff.to_update[j].changes["status"].old = "failed"

\* C5 -- No double-flagging: an entity that is already failed and still
\* absent from the desired list is not put in to_mark_missing, is not
\* counted in marked_missing and is not written (the entity and its disks
\* stay as they were).
NoDoubleFlagging ==
    pc \in {"planned", "done"} =>
        \A n \in Names :
            (/\ existing_vms[n] # NoVM
             /\ existing_vms[n].status = "failed"
             /\ \A i \in DOMAIN vcenter_vms : vcenter_vms[i].name # n) =>
                /\ ~ InSeq(diff.to_mark_missing, n)
                /\ pc = "done" =>
                      /\ vms[n] = existing_vms[n]
                      /\ disks[n] = pre.disks[n]
                      /\ written[n] = << >>
                      /\ result.marked_missing <=
                            Cardinality({m \in Names \ {n} :
                                /\ existing_vms[m] # NoVM
                                /\ \A i \in DOMAIN vcenter_vms : vcenter_vms[i].name # m})

\* The second run marks another entity missing and leaves alone the entity
\* the first run marked.
NoDoubleFlaggingWitness ==
    /\ pc = "done" /\ ended = "ok" /\ runs = 2
    /\ result.marked_missing = 1
    /\ \E n \in Names :
          /\ existing_vms[n] # NoVM /\ existing_vms[n].status = "failed"
          /\ existing_vms[n].cf["last_synced"] = 1
          /\ ~ InSeq(diff.to_mark_missing, n)
          /\ vms[n].cf["last_synced"] = 1

\* C6 -- Disk convergence: after sync_vm_disks on a disk list with unique
\* names the entity's disks are exactly the list's (same names, size =
\* size_mb); a disk in both that is already equal is not written, a disk
\* only in the list is created, a disk only in the entity is deleted, and
\* an empty list deletes every disk.
DiskConvergence ==
    vcenter_vms # << >> =>
        LET l == vcenter_vms[1].disks
            names == {l[i].name : i \in DOMAIN l}
            old == pre.disks[DiskOwner]
            new == disks[DiskOwner]
            w == written[DiskOwner]
        IN  /\ DOMAIN new = names
            /\ \A i \in DOMAIN l :
                  LET x == l[i].name
                  IN  /\ new[x].size = l[i].size_mb
                      /\ (x \in DOMAIN old
                            /\ old[x].size = l[i].size_mb
                            /\ old[x].description = DiskDescription(l[i]))
                           => \A j \in DOMAIN w : w[j][2] # x
                      /\ x \notin DOMAIN old => InSeq(w, <<"create", x>>)
            /\ \A x \in (DOMAIN old) \ names : InSeq(w, <<"delete", x>>)
            /\ l = << >> => new = << >>

\* Two disks, one kept as it is and one replaced by a new one: one delete
\* and one create, nothing else.
DiskConvergenceWitness ==
    /\ vcenter_vms # << >>
    /\ Len(vcenter_vms[1].disks) = 2
    /\ Cardinality(DOMAIN pre.disks[DiskOwner]) = 2
    /\ Len(written[DiskOwner]) = 2
    /\ \E x, y \in ToSet(DiskNames) :
          /\ InSeq(written[DiskOwner], <<"delete", x>>)
          /\ InSeq(written[DiskOwner], <<"create", y>>)

\* The creation of the to_create item d raises: a call of its iteration
\* fails, or several clusters carry the name it resolves.
CreateRaises(d) ==
    \/ fault[d.name] \in {"cluster", "create", "save"}
    \/ Cardinality({c \in DOMAIN pre.clusters :
                      pre.clusters[c].name = DerivedCluster(d)}) > 1

FailedCreates == {i \in DOMAIN diff.to_create : CreateRaises(diff.to_create[i])}

CreateErrors == {j \in DOMAIN result.errors : result.errors[j].kind = "create"}

\* C7 -- Error isolation on create: when k of the n to_create items raise,
\* every item is processed, created = n - k, the errors gain exactly k
\* messages, each naming a failed VM, and the n - k created entities are
\* committed with the transaction.
CreateIsolation ==
    (pc = "done" /\ ended \in {"ok", "apply"}) =>
        /\ result.created = Len(diff.to_create) - Cardinality(FailedCreates)
        /\ Cardinality(CreateErrors) = Cardinality(FailedCreates)
        /\ {result.errors[j].vm : j \in CreateErrors}
              = {diff.to_create[i].name : i \in FailedCreates}
        /\ ended = "ok" =>
              \A i \in (DOMAIN diff.to_create) \ FailedCreates :
                  /\ pre.vms[diff.to_create[i].name] = NoVM
                  /\ vms[diff.to_create[i].name] # NoVM
                  /\ vms[diff.to_create[i].name].cf["last_synced"] = runs

\* Of two VMs to create, the first fails and the second is committed.
CreateIsolationWitness ==
    /\ pc = "done" /\ ended = "ok"
    /\ Len(diff.to_create) = 2
    /\ FailedCreates = {1}
    /\ result.created = 1
    /\ vms[diff.to_create[2].name] # NoVM

\* C8 -- Create result: a to_create item processed without error leaves an
\* entity of its name with the derived status, the description's vcpus and
\* memory, a cluster named by the hint or the default grouping name and
\* attached to the default cluster group, and custom fields holding
\* vcenter_id, vcenter_cluster, the ip address, the tools and OS values and
\* last_synced = the sync time; created counts these entities.
CreateResult ==
    (pc = "done" /\ ended = "ok") =>
        /\ \A i \in (DOMAIN diff.to_create) \ FailedCreates :
              LET d == diff.to_create[i]
                  vm == vms[d.name]
              IN  /\ vm # NoVM
                  /\ vm.name = d.name
                  /\ vm.status = DerivedStatus(d)
                  /\ vm.vcpus = d.vcpus
                  /\ vm.memory = d.memory
                  /\ clusters[vm.cluster].name = DerivedCluster(d)
                  /\ clusters[vm.cluster].group = cluster_group_name
                  /\ \A f \in {"vcenter_id", "vcenter_cluster"} \cup PlainFields :
                        vm.cf[f] = d[f]
                  /\ vm.cf["last_synced"] = runs
        /\ result.created = Cardinality((DOMAIN diff.to_create) \ FailedCreates)

\* A powered-off VM outside any cluster and a VM of a cluster that belonged
\* to another group are both created.
CreateResultWitness ==
    /\ pc = "done" /\ ended = "ok"
    /\ result.created = 2
    /\ \E i \in DOMAIN diff.to_create :
          /\ diff.to_create[i].state = "stopped"
          /\ diff.to_create[i].vcenter_cluster = None
          /\ vms[diff.to_create[i].name].status = "offline"
    /\ \E i \in DOMAIN diff.to_create :
          /\ diff.to_create[i].vcenter_cluster = "cl-a"
          /\ vms[diff.to_create[i].name].cluster \in DOMAIN pre.clusters
          /\ pre.clusters[vms[diff.to_create[i].name].cluster].group = "site-b"

\* The error message a failed phase leaves.
PhaseError(phase) ==
    CASE phase = "probe" -> "connect"
      [] phase = "prepare" -> "fetch"
      [] phase = "diff" -> "diff"
      [] phase = "apply" -> "apply"

\* C9 -- sync_vcenter_vms never propagates an exception: whichever phase
\* fails, the run returns a finished SyncResult whose errors hold the
\* failure.
NeverPropagates ==
    pc = "done" =>
        /\ outcome = "returned"
        /\ result.finished
        /\ ended \in {"probe", "prepare", "diff", "apply"} =>
              /\ result.errors # << >>
              /\ result.errors[Len(result.errors)].kind = PhaseError(ended)

\* The apply raised after a create: the run returned with the counter and
\* the error.
NeverPropagatesWitness ==
    /\ pc = "done" /\ ended = "apply" /\ outcome = "returned"
    /\ result.finished /\ result.created = 1
    /\ result.errors = <<Error("apply", None)>>

\* C10 -- Connectivity failure: a run whose probe returns false returns a
\* result with exactly one error and all counters zero, and changes nothing
\* in the datastore (entities, disks, clusters, cluster type, cluster group,
\* custom-field definitions).
ConnectivityFailure ==
    [][(runs' = runs + 1 /\ ~ connected') =>
          /\ pc' = "done" /\ outcome' = "returned" /\ result'.finished
          /\ Len(result'.errors) = 1
          /\ result'.created = 0 /\ result'.updated = 0 /\ result'.unchanged = 0
          /\ result'.marked_missing = 0 /\ result'.total_processed = 0
          /\ UNCHANGED <<vms, clusters, disks, nextId, schema>>]_vars

\* The probe fails in the first run, before any prerequisite exists.
ConnectivityFailureWitness ==
    /\ pc = "done" /\ ended = "probe" /\ ~ connected /\ runs = 1
    /\ schema = NoSchema
    /\ Len(result.errors) = 1

\* C11 -- Phase ordering: the diff starts only after a fetch that did not
\* raise, the apply only after a diff that did not raise; a run whose fetch
\* or diff raises ends with exactly one prefixed error, all counters zero,
\* and no entity or disk created, modified or deleted.
PhaseOrdering ==
    [][/\ pc' = "planned" =>
             /\ pc = "fetched" /\ result'.errors = << >>
       /\ (pc' = "done" /\ ended' \in {"ok", "apply"}) =>
             /\ pc = "planned" /\ result.errors = << >>
       /\ (pc' = "done" /\ ended' \in {"prepare", "diff"}) =>
             /\ pc = (IF ended' = "diff" THEN "fetched" ELSE pc)
             /\ result'.errors = <<Error(PhaseError(ended'), None)>>
             /\ result'.created = 0 /\ result'.updated = 0
             /\ result'.unchanged = 0 /\ result'.marked_missing = 0
             /\ result'.total_processed = 0
             /\ UNCHANGED <<vms, disks>>]_vars

\* The second run's diff fails over entities the first run wrote.
PhaseOrderingWitness ==
    /\ pc = "done" /\ ended = "diff" /\ runs = 2
    /\ result.errors = <<Error("diff", None)>>
    /\ \E n \in Names : Exists(vms, n) /\ vms[n].cf["last_synced"] = 1

PerItemKinds == {"create", "update", "mark", "disk"}

\* C12 -- Transaction rollback: when an exception escapes every per-item
\* guard of apply_changes, the datastore (entities, clusters, disks) equals
\* its state before the apply, and the returned result's errors are the
\* earlier per-item errors followed by one apply-phase error.
TransactionRollback ==
    (pc = "done" /\ ended = "apply") =>
        /\ vms = pre.vms /\ clusters = pre.clusters /\ disks = pre.disks
        /\ outcome = "returned" /\ result.finished
        /\ result.errors # << >>
        /\ result.errors[Len(result.errors)] = Error("apply", None)
        /\ \A j \in 1 .. (Len(result.errors) - 1) :
              result.errors[j].kind \in PerItemKinds
        /\ \A i \in FailedCreates :
              \E j \in 1 .. (Len(result.errors) - 1) :
                  result.errors[j] = Error("create", diff.to_create[i].name)

\* One create failed, one succeeded and the disks were reconciled before
\* the commit failed: nothing is left of the apply but the result.
TransactionRollbackWitness ==
    /\ pc = "done" /\ ended = "apply"
    /\ Len(result.errors) = 2 /\ result.errors[1].kind = "create"
    /\ result.created = 1 /\ result.total_processed = 2
    /\ \A n \in Names : vms[n] = NoVM

\* C13 -- Entities are never deleted: an entity of the datastore stays, with
\* its identity, over every step; an entity absent from the desired list
\* only has its status moved to failed (and its stamp renewed), and a failed
\* entity whose name reappears is the same entity moved out of failed.
NeverDeleted ==
    [][\A n \in Names : vms[n] # NoVM =>
          /\ vms'[n] # NoVM
          /\ vms'[n].id = vms[n].id
          /\ vms'[n].name = vms[n].name
          /\ (pc' = "done" /\ ended' = "ok") =>
                IF \E i \in DOMAIN vcenter_vms : vcenter_vms[i].name = n
                THEN (vms[n].status = "failed"
                        /\ \A j \in DOMAIN result'.errors : result'.errors[j].vm # n)
                       => \E i \in DOMAIN vcenter_vms :
                             /\ vcenter_vms[i].name = n
                             /\ vms'[n].status = DerivedStatus(vcenter_vms[i])
                ELSE /\ vms'[n].status = "failed"
                     /\ [vms'[n] EXCEPT !.status = vms[n].status,
                                        !.cf["last_synced"] = vms[n].cf["last_synced"]]
                           = vms[n]]_vars

\* An entity the first run marked failed is the same entity, active again,
\* after the second run.
NeverDeletedWitness ==
    /\ pc = "done" /\ ended = "ok" /\ runs = 2
    /\ \E n \in Names :
          /\ pre.vms[n] # NoVM /\ pre.vms[n].status = "failed"
          /\ pre.vms[n].cf["last_synced"] = 1
          /\ vms[n].id = pre.vms[n].id
          /\ vms[n].status = "active"
          /\ vms[n].cf["last_synced"] = 2

(***************************************************************************)
(* get_sync_status, and the signal handler of signals.py that writes an    *)
(* entity's row outside a synchronisation.                                 *)
(***************************************************************************)
\* A last_synced value that dateutil cannot parse.
Malformed == -1

\* Bound of the clock of row writes.
MaxClock == 4

\* parser.parse(last_synced_str); an exception leaves last_sync at None.
ParseTime(v) == IF v = Malformed THEN NoTime ELSE v

\* VirtualMachine.objects.filter(cluster__group=cluster_group)
GroupVMs(db) == {n \in Names : InClusterGroup(db, n)}

\* vms.order_by('-last_updated')[:1]
MostRecentlyUpdated(db, lu) ==
    {n \in GroupVMs(db) : \A m \in GroupVMs(db) : lu[m] <= lu[n]}

CountStatus(db, st) == Cardinality({n \in GroupVMs(db) : db.vms[n].status = st})

\* A status that counts every entity, in the group or not (a faulty
\* variant).
StatusOfAllEntities(db, group_exists, first, available) ==
    [total_vms |-> Cardinality({n \in Names : Exists(db.vms, n)}),
     active_vms |-> Cardinality({n \in Names : Exists(db.vms, n) /\ db.vms[n].status = "active"}),
     offline_vms |-> Cardinality({n \in Names : Exists(db.vms, n) /\ db.vms[n].status = "offline"}),
     failed_vms |-> Cardinality({n \in Names : Exists(db.vms, n) /\ db.vms[n].status = "failed"}),
     vcenter_available |-> available,
     last_sync |-> NoTime,
     cluster_count |-> Len(db.clusters),
     called |-> TRUE]

\* first: the entity the ordered query returns (None when it returns none).
get_sync_status(db, group_exists, first, available) ==
    IF ~ group_exists
    THEN [NoStatus EXCEPT !.vcenter_available = available, !.called = TRUE]
    ELSE [total_vms |-> Cardinality(GroupVMs(db)),
          active_vms |-> CountStatus(db, "active"),
          offline_vms |-> CountStatus(db, "offline"),
          failed_vms |-> CountStatus(db, "failed"),
          vcenter_available |-> available,
          last_sync |-> IF first # None /\ db.vms[first].cf["last_synced"] # NoTime
                        THEN ParseTime(db.vms[first].cf["last_synced"])
                        ELSE NoTime,
          cluster_count |-> Cardinality({c \in DOMAIN db.clusters :
                                            db.clusters[c].group = cluster_group_name}),
          called |-> TRUE]

\* Entities as synchronisations leave them: written by the run whose time
\* they carry, or with a last_synced edited by hand since.
StampedEntities(i) ==
    UNION {{Stamp(SyncedEntity(i, d, SyncedClusterId(d), st), t) :
               st \in {vcenter_status(d), "failed"}, t \in {1, 2, Malformed}} :
           d \in {Description(NameSeq[i], "running", "cl-a", TRUE),
                  Description(NameSeq[i], "stopped", None, FALSE)}}

StatusEntities(i) == {NoVM, ManualEntity(i, "active")} \cup StampedEntities(i)

\* Rows written by a later run were written later.
WrittenInOrder(v, lu) ==
    /\ \A n \in Names : (lu[n] = NoTime) <=> ~ Exists(v, n)
    /\ \A n, m \in Names : (n # m /\ Exists(v, n) /\ Exists(v, m)) =>
          /\ lu[n] # lu[m]
          /\ (v[n].cf["last_synced"] > NoTime
                /\ v[n].cf["last_synced"] < v[m].cf["last_synced"]) => lu[n] < lu[m]

InitStatus ==
    /\ \/ /\ schema = AllSchema
          /\ clusters = SyncedClusters
          /\ vms \in {v \in [Names -> UNION {StatusEntities(i) : i \in DOMAIN NameSeq}] :
                         \A i \in DOMAIN NameSeq : v[NameSeq[i]] \in StatusEntities(i)}
       \/ /\ schema = NoSchema
          /\ clusters = <<LegacyCluster>>
          /\ vms \in {v \in [Names -> UNION {InitEntities(i) : i \in DOMAIN NameSeq}] :
                         \A i \in DOMAIN NameSeq : v[NameSeq[i]] \in InitEntities(i)}
    /\ last_updated \in {lu \in [Names -> 0 .. Len(NameSeq)] : WrittenInOrder(vms, lu)}
    /\ disks = [n \in Names |-> << >>]
    /\ nextId = Len(NameSeq) + 1
    /\ sync_status = NoStatus
    /\ rival = NoRival
    /\ pc = "idle"
    /\ ended = "none"
    /\ runs = 0
    /\ connected = FALSE
    /\ vcenter_vms = << >>
    /\ existing_vms = [n \in Names |-> NoVM]
    /\ diff = EmptyDiff
    /\ result = NewResult
    /\ outcome = "none"
    /\ pre = DB
    /\ fault = NoFault
    /\ injected = 0
    /\ stable = FALSE
    /\ written = NoWrites
    /\ afterClean = FALSE

\* One call get_sync_status(); the probe answers either way.
GetSyncStatus ==
    /\ \E available \in BOOLEAN :
       \E first \in (IF schema.cluster_group /\ GroupVMs(DB) # {}
                     THEN MostRecentlyUpdated(DB, last_updated) ELSE {None}) :
          sync_status' = get_sync_status(DB, schema.cluster_group, first, available)
    /\ UNCHANGED <<dbvars, schema, pc, runs, runvars, outcome, histvars, rival>>

\* sync_vm_services_custom_field: an assignment of a service to the entity
\* is saved or deleted; the handler sets obu_services and saves the entity.
SaveBySignal ==
    /\ \E n \in Names :
          /\ Exists(vms, n)
          /\ Latest(last_updated) < MaxClock
          /\ vms' = [vms EXCEPT ![n].cf["obu_services"] = "svc"]
          /\ last_updated' = Touch(last_updated, <<n>>, 1)
    /\ UNCHANGED <<clusters, disks, nextId, sync_status, rival, schema, pc, runs,
                   runvars, outcome, histvars>>

NextStatus == GetSyncStatus \/ SaveBySignal

SpecStatus == InitStatus /\ [][NextStatus]_vars

\* The entities of the target group, by the datastore alone.
EntitiesInGroup ==
    {n \in Names : vms[n] # NoVM
                     /\ clusters[vms[n].cluster].group = cluster_group_name}

\* C14 -- get_sync_status is read-only and its counts are exact: a call
\* writes nothing, total_vms is the number of entities whose cluster is in
\* the group, active_vms, offline_vms and failed_vms are the numbers of
\* those with that status (their sum is at most total_vms), and
\* cluster_count is the number of clusters of the group.
StatusReadOnlyExact ==
    [][sync_status' # sync_status =>
          /\ UNCHANGED <<vms, clusters, disks, nextId, last_updated, schema>>
          /\ sync_status'.total_vms = Cardinality(EntitiesInGroup)
          /\ \A st \in {"active", "offline", "failed"} :
                (CASE st = "active" -> sync_status'.active_vms
                   [] st = "offline" -> sync_status'.offline_vms
                   [] st = "failed" -> sync_status'.failed_vms)
                  = Cardinality({n \in EntitiesInGroup : vms[n].status = st})
          /\ sync_status'.active_vms + sync_status'.offline_vms
                + sync_status'.failed_vms <= sync_status'.total_vms
          /\ sync_status'.cluster_count =
                Cardinality({c \in DOMAIN clusters :
                                clusters[c].group = cluster_group_name})]_vars

\* A status over one active and one failed entity of the group.
StatusReadOnlyExactWitness ==
    /\ sync_status.called
    /\ sync_status.total_vms = 2
    /\ sync_status.active_vms = 1 /\ sync_status.failed_vms = 1
    /\ sync_status.cluster_count = 2

\* The last_synced values of the group's entities that parse.
ParseableStamps ==
    {vms[n].cf["last_synced"] : n \in {m \in EntitiesInGroup :
                                          vms[m].cf["last_synced"] > NoTime}}

\* C15 -- get_sync_status returns as last_sync the most recent last_synced
\* of the group's entities: whenever an entity of the group carries a
\* parseable value, last_sync is not None and is the maximum of those
\* values (a malformed value does not make the query fail).
LastSyncIsMaximum ==
    (sync_status.called /\ ParseableStamps # {}) =>
        /\ sync_status.last_sync # NoTime
        /\ \A t \in ParseableStamps : t <= sync_status.last_sync

(***************************************************************************)
(* Two workers: a second run of sync_vcenter_vms whose phases interleave   *)
(* with those of the first.  Nothing in sync.py or jobs.py takes a lock;   *)
(* each apply is one transaction.                                          *)
(***************************************************************************)
RivalFetch ==
    /\ rival.pc = "idle" /\ runs < MaxRuns
    /\ \E l \in DesiredLists :
          rival' = [NoRival EXCEPT !.pc = "fetched", !.vcenter_vms = l,
                                   !.existing_vms = ReadExisting(DB), !.time = runs + 1]
    /\ runs' = runs + 1
    /\ schema' = AllSchema
    /\ UNCHANGED <<dbvars, sync_status, pc, runvars, outcome, histvars>>

RivalDiff ==
    /\ rival.pc = "fetched"
    /\ rival' = [rival EXCEPT
                    !.diff = calculate_diff(rival.vcenter_vms, rival.existing_vms,
                                            cluster_group_name, clusters),
                    !.pc = "planned"]
    /\ UNCHANGED <<dbvars, sync_status, schema, pc, runs, runvars, outcome, histvars>>

RivalApply ==
    /\ rival.pc = "planned"
    /\ LET r == apply_changes(DB, rival.diff, rival.result, rival.existing_vms,
                              rival.vcenter_vms, rival.time, NoFault, "none")
       IN  /\ Commit(r.db)
           /\ last_updated' = Touch(last_updated, r.saved, 1)
           /\ rival' = [rival EXCEPT !.pc = "done",
                                     !.result = [r.result EXCEPT !.finished = TRUE]]
    /\ UNCHANGED <<sync_status, schema, pc, runs, runvars, outcome, histvars>>

\* As Init, with one cluster table and the budget of injected failures
\* spent: the two runs meet no failure but each other.
InitRace ==
    /\ vms \in {v \in [Names -> UNION {InitEntities(i) : i \in DOMAIN NameSeq}] :
                   \A i \in DOMAIN NameSeq : v[NameSeq[i]] \in InitEntities(i)}
    /\ clusters = <<LegacyCluster>>
    /\ disks = [n \in Names |-> IF Exists(vms, n) THEN ManualDisks ELSE << >>]
    /\ nextId = Len(NameSeq) + 1
    /\ last_updated = EnteredInOrder(vms)
    /\ sync_status = NoStatus
    /\ rival = NoRival
    /\ schema = NoSchema
    /\ pc = "idle"
    /\ ended = "none"
    /\ runs = 0
    /\ connected = FALSE
    /\ vcenter_vms = << >>
    /\ existing_vms = [n \in Names |-> NoVM]
    /\ diff = EmptyDiff
    /\ result = NewResult
    /\ outcome = "none"
    /\ pre = DB
    /\ fault = NoFault
    /\ injected = MaxFaults
    /\ stable = FALSE
    /\ written = NoWrites
    /\ afterClean = FALSE

NextRace == Fetch \/ Diff \/ Apply \/ RivalFetch \/ RivalDiff \/ RivalApply

SpecRace == InitRace /\ [][NextRace]_vars

\* A run's apply over a datastore nobody wrote to since the run read it:
\* every to_create item names an absent entity and is created.
SerialCreate(plan, read, res) ==
    read = vms =>
        /\ \A i \in DOMAIN plan.to_create :
              /\ ~Exists(vms, plan.to_create[i].name)
              /\ Exists(vms', plan.to_create[i].name)
              /\ vms'[plan.to_create[i].name].id >= nextId
        /\ res.created = Len(plan.to_create)
        /\ \A j \in DOMAIN res.errors : res.errors[j].kind # "create"

\* A run's apply attempts the create of every to_create item, also of one
\* that the other run has created since: that attempt fails with an error.
AttemptsCreate(plan, res) ==
    \A i \in DOMAIN plan.to_create :
       IF Exists(vms, plan.to_create[i].name)
       THEN InSeq(res.errors, Error("create", plan.to_create[i].name))
       ELSE Exists(vms', plan.to_create[i].name)

\* C16 -- Serialization requirement: runs that follow one another create
\* every desired name at most once (an apply over the datastore as read
\* creates exactly its to_create items, and an existing entity is never
\* created again); no lock is taken, so when two runs both read the existing
\* set before either applies, both plans hold the same to_create item for a
\* name that does not exist yet, and both attempt the create.
SerialisedCreates ==
    [][/\ \A n \in Names : Exists(vms, n) => Exists(vms', n) /\ vms'[n].id = vms[n].id
       /\ pc = "planned" /\ pc' = "done" =>
             SerialCreate(diff, existing_vms, result') /\ AttemptsCreate(diff, result')
       /\ rival.pc = "planned" /\ rival'.pc = "done" =>
             /\ SerialCreate(rival.diff, rival.existing_vms, rival'.result)
             /\ AttemptsCreate(rival.diff, rival'.result)
       /\ pc = "planned" /\ rival.pc = "planned" /\ existing_vms = rival.existing_vms =>
             \A i \in DOMAIN diff.to_create :
                InSeq(rival.vcenter_vms, diff.to_create[i])
                    => InSeq(rival.diff.to_create, diff.to_create[i])
      ]_vars

\* Both runs planned the create of the same absent name; one created it and
\* the other's attempt failed.
SerialisedCreatesWitness ==
    /\ pc = "done" /\ rival.pc = "done"
    /\ \E i \in DOMAIN diff.to_create :
          /\ InSeq(rival.diff.to_create, diff.to_create[i])
          /\ Exists(vms, diff.to_create[i].name)
          /\ \/ result.created > 0
                /\ InSeq(rival.result.errors, Error("create", diff.to_create[i].name))
             \/ rival.result.created > 0
                /\ InSeq(result.errors, Error("create", diff.to_create[i].name))

\* The to_mark_missing entities whose re-stamping save raised in the last
\* apply.
FailedStamps == {i \in DOMAIN diff.to_mark_missing : fault[diff.to_mark_missing[i]] = "save"}

\* C17 -- Missing-mark failures isolated per entity: when the re-stamping of
\* one to_mark_missing entity raises, an error names that entity, the other
\* to_mark_missing entities are failed and stamped with the run's time, and
\* marked_missing counts the entities marked, the failed one excluded.
MarkIsolation ==
    pc = "done" /\ ended = "ok" =>
        /\ \A i \in FailedStamps :
              InSeq(result.errors, Error("mark", diff.to_mark_missing[i]))
        /\ \A i \in DOMAIN diff.to_mark_missing \ FailedStamps :
              /\ vms[diff.to_mark_missing[i]].status = "failed"
              /\ vms[diff.to_mark_missing[i]].cf["last_synced"] = runs
        /\ result.marked_missing = Len(diff.to_mark_missing) - Cardinality(FailedStamps)

\* The to_update items whose application raised in the last apply: a save
\* that raised, or a cluster that could not be resolved.
UpdateRaises(item) ==
    \/ fault[item.vm] = "save"
    \/ /\ "vcenter_cluster" \in DOMAIN item.changes
       /\ \/ fault[item.vm] = "cluster"
          \/ Cardinality({c \in DOMAIN pre.clusters :
                 pre.clusters[c].name
                    = expected_cluster_name(item.changes["vcenter_cluster"].new,
                                            cluster_group_name)}) > 1

FailedUpdates == {i \in DOMAIN diff.to_update : UpdateRaises(diff.to_update[i])}

UpdateErrors == {j \in DOMAIN result.errors : result.errors[j].kind = "update"}

\* The entities whose disk reconciliation raised in the last apply.
DiskRaises(n) == fault[n] = "disk" /\ InClusterGroup(DB, n)

\* What C18 asks of the state a returned apply leaves.
UpdateDiskIsolated ==
    /\ result.updated = Len(diff.to_update) - Cardinality(FailedUpdates)
    /\ Cardinality(UpdateErrors) = Cardinality(FailedUpdates)
    /\ {result.errors[j].vm : j \in UpdateErrors}
          = {diff.to_update[i].vm : i \in FailedUpdates}
    /\ \A i \in (DOMAIN diff.to_update) \ FailedUpdates :
          vms[diff.to_update[i].vm].cf["last_synced"] = runs
    /\ FailedStamps = {} =>
          /\ result.marked_missing = Len(diff.to_mark_missing)
          /\ \A i \in DOMAIN diff.to_mark_missing :
                vms[diff.to_mark_missing[i]].status = "failed"
    /\ \A n \in Names :
          /\ DiskRaises(n) =>
                InSeq(result.errors, Error("disk", n)) /\ disks[n] = pre.disks[n]
          /\ InClusterGroup(DB, n) /\ HasDescription(vcenter_vms, n) /\ ~DiskRaises(n) =>
                disks[n] = sync_vm_disks(pre.disks[n],
                                         DescriptionOf(vcenter_vms, n).disks).disks

\* C18 -- Update and disk-reconcile failures isolated per entity: when
\* applying a to_update item or reconciling an entity's disks raises, an
\* error naming the entity is appended, updated is not incremented for it,
\* every later to_update item, the mark-missing step and every other
\* entity's disk reconciliation are executed, and apply_changes returns.
UpdateDiskIsolation ==
    [][pc = "planned" /\ pc' = "done" =>
          /\ injected' - injected = Cardinality({n \in Names : fault'[n] # "none"})
                => ended' = "ok"
          /\ ended' = "ok" => UpdateDiskIsolated'
      ]_vars

\* Of two to_update items the first raised and the second was applied.
UpdateDiskIsolationWitness ==
    /\ pc = "done" /\ ended = "ok"
    /\ Len(diff.to_update) = 2
    /\ FailedUpdates = {1}
    /\ result.updated = 1
    /\ InSeq(result.errors, Error("update", diff.to_update[1].vm))
    /\ vms[diff.to_update[2].vm].cf["last_synced"] = runs

\* C19 -- Counters match what was persisted: at the end of every run,
\* created is the number of entities in the datastore that were not there
\* before the run, updated the number of to_update entities whose changes
\* are persisted, and marked_missing the number of entities the run moved to
\* status failed, also for runs with per-item errors and for runs whose
\* apply transaction was rolled back.
CountersMatchPersisted ==
    pc = "done" =>
        /\ result.created
             = Cardinality({n \in Names : Exists(vms, n) /\ ~Exists(pre.vms, n)})
        /\ result.updated
             = Cardinality({i \in DOMAIN diff.to_update :
                               vms[diff.to_update[i].vm] # pre.vms[diff.to_update[i].vm]})
        /\ result.marked_missing
             = Cardinality({n \in Names :
                               /\ Exists(pre.vms, n) /\ pre.vms[n].status # "failed"
                               /\ vms[n].status = "failed"})

(***************************************************************************)
(* Lists with a repeated name: vCenter holds two VMs of the same name (in  *)
(* different folders), and get_vcenter_vms() returns a description of      *)
(* each.                                                                   *)
(***************************************************************************)
DuplicateLists ==
    {<<d1, d2>> : d1 \in DescriptionsOf(NameSeq[1]),
                  d2 \in DescriptionsOf(NameSeq[1])}

\* Phase 1 succeeds with a list that names one VM twice.
FetchDuplicates ==
    /\ CanStart
    /\ \E l \in DuplicateLists :
          /\ vcenter_vms' = l
          /\ afterClean' = (stable /\ pc = "done" /\ l = vcenter_vms)
    /\ runs' = runs + 1
    /\ connected' = TRUE
    /\ schema' = AllSchema
    /\ existing_vms' = ReadExisting(DB)
    /\ diff' = EmptyDiff
    /\ result' = NewResult
    /\ outcome' = "none"
    /\ pc' = "fetched"
    /\ ended' = "none"
    /\ pre' = DB
    /\ fault' = NoFault
    /\ stable' = FALSE
    /\ written' = NoWrites
    /\ UNCHANGED <<sync_status, rival, dbvars, injected>>

NextDuplicates == FetchDuplicates \/ Diff \/ Apply

SpecDuplicates == Init /\ [][NextDuplicates]_vars

\* The names that occur more than once in the list of the run.
Repeated ==
    {n \in Names : Cardinality({i \in DOMAIN vcenter_vms : vcenter_vms[i].name = n}) > 1}

\* C20 -- Duplicate names, last occurrence wins: when the desired list holds
\* two descriptions of the same name and an entity of that name exists,
\* after the run the entity's status, vcpus, memory and custom fields are
\* those of the last occurrence.
LastOccurrenceWins ==
    (pc = "done" /\ ended = "ok" /\ result.errors = << >>) =>
        \A n \in Repeated : Exists(pre.vms, n) =>
            LET d == DescriptionOf(vcenter_vms, n)
            IN  /\ vms[n].status = DerivedStatus(d)
                /\ vms[n].vcpus = d.vcpus
                /\ vms[n].memory = d.memory
                /\ \A f \in PlainFields : vms[n].cf[f] = d[f]

\* The change sets get_field_changes computes in the current run: one per
\* description whose name matches an entity that was read.
Matched == {i \in DOMAIN vcenter_vms : Exists(existing_vms, vcenter_vms[i].name)}

ChangesOf(i) ==
    get_field_changes(existing_vms[vcenter_vms[i].name], vcenter_vms[i],
                      cluster_group_name, clusters)

\* Minimality of the change set of description i over the fields F.
MinimalOver(i, F) ==
    LET vm == existing_vms[vcenter_vms[i].name]
        ch == ChangesOf(i)
    IN  /\ \A f \in DOMAIN ch \cap F : ch[f].new # ch[f].old
        /\ \A f \in F : NewValue(vcenter_vms[i], f) = OldValue(vm, f) => f \notin DOMAIN ch

\* C21 -- ChangeSet minimality: every entry get_field_changes returns has
\* new different from old, and a field of the enumerated set whose desired
\* value equals the stored value has no entry.
ChangeSetMinimal ==
    pc \in {"fetched", "planned"} => \A i \in Matched : MinimalOver(i, DiffFields)

\* C21 (amended) -- the same for every field but vcenter_cluster; a
\* vcenter_cluster entry with new equal to old is returned exactly for an
\* entity whose cluster is not the one the description names.
ChangeSetMinimalButCluster ==
    pc \in {"fetched", "planned"} =>
        \A i \in Matched :
            LET vm == existing_vms[vcenter_vms[i].name]
                ch == ChangesOf(i)
            IN  /\ MinimalOver(i, DiffFields \ {"vcenter_cluster"})
                /\ ("vcenter_cluster" \in DOMAIN ch
                      /\ ch["vcenter_cluster"].new = ch["vcenter_cluster"].old)
                   <=> (/\ vm.cf["vcenter_cluster"] = vcenter_vms[i].vcenter_cluster
                        /\ ClusterNameOf(vm, clusters)
                             # expected_cluster_name(vcenter_vms[i].vcenter_cluster,
                                                     cluster_group_name))

\* A planned update whose change set holds an entry for a field that
\* differs, none for a field that is equal, and a vcenter_cluster entry
\* with new equal to old.
ChangeSetMinimalButClusterWitness ==
    /\ pc = "planned"
    /\ \E j \in DOMAIN diff.to_update :
          LET ch == diff.to_update[j].changes
          IN  /\ "vcenter_cluster" \in DOMAIN ch
              /\ ch["vcenter_cluster"].new = ch["vcenter_cluster"].old
              /\ "vcpus" \in DOMAIN ch /\ ch["vcpus"].new # ch["vcpus"].old
              /\ "status" \notin DOMAIN ch

\* C22 -- Grouping diff: get_field_changes holds a vcenter_cluster entry iff
\* the entity's cluster name differs from the expected name (the hint, or
\* the default grouping name without a hint) or the hint is non-empty and
\* differs from the stored hint; the entry's new value is the raw hint
\* (None without a hint), never the resolved default name.
GroupingDiff ==
    pc \in {"fetched", "planned"} =>
        \A i \in Matched :
            LET d == vcenter_vms[i]
                vm == existing_vms[d.name]
                ch == ChangesOf(i)
            IN  /\ "vcenter_cluster" \in DOMAIN ch
                   <=> \/ clusters[vm.cluster].name # DerivedCluster(d)
                       \/ /\ d.vcenter_cluster \notin {None, ""}
                          /\ d.vcenter_cluster # vm.cf["vcenter_cluster"]
                /\ "vcenter_cluster" \in DOMAIN ch =>
                      /\ ch["vcenter_cluster"].new = d.vcenter_cluster
                      /\ ch["vcenter_cluster"].old = vm.cf["vcenter_cluster"]
                      /\ d.vcenter_cluster = None =>
                            ch["vcenter_cluster"].new # cluster_group_name

\* An entity in the legacy cluster and a description without a hint: the
\* entry is planned with None as its new value.
GroupingDiffWitness ==
    /\ pc = "planned"
    /\ \E j \in DOMAIN diff.to_update :
          /\ "vcenter_cluster" \in DOMAIN diff.to_update[j].changes
          /\ diff.to_update[j].changes["vcenter_cluster"].new = None
          /\ clusters[existing_vms[diff.to_update[j].vm].cluster].name = LegacyCluster.name

\* C23 -- Remote identifier is never cleared: once an entity holds a
\* non-empty vcenter_id no step of any run makes it empty or None, and a
\* description with an empty vcenter_id yields no vcenter_id entry.
IdentifierNeverCleared ==
    [][/\ \A n \in Names :
             (Exists(vms, n) /\ Truthy(vms[n].cf["vcenter_id"]))
                => Exists(vms', n) /\ Truthy(vms'[n].cf["vcenter_id"])
       /\ pc' = "planned" =>
             /\ \A j \in DOMAIN diff'.to_update :
                   "vcenter_id" \in DOMAIN diff'.to_update[j].changes
                       => Truthy(diff'.to_update[j].changes["vcenter_id"].new)
             /\ \A i \in DOMAIN vcenter_vms :
                   (Exists(existing_vms, vcenter_vms[i].name)
                      /\ ~Truthy(vcenter_vms[i].vcenter_id))
                       => "vcenter_id" \notin DOMAIN get_field_changes(
                              existing_vms[vcenter_vms[i].name], vcenter_vms[i],
                              cluster_group_name, clusters)
      ]_vars

\* An entity with an identifier was updated from a description without
\* one and kept its identifier.
IdentifierNeverClearedWitness ==
    /\ pc = "done" /\ ended = "ok" /\ result.updated > 0
    /\ \E i \in DOMAIN vcenter_vms :
          LET n == vcenter_vms[i].name
          IN  /\ vcenter_vms[i].vcenter_id = ""
              /\ Exists(pre.vms, n) /\ Truthy(pre.vms[n].cf["vcenter_id"])
              /\ vms[n].cf["last_synced"] = runs
              /\ vms[n].cf["ip_address"] # pre.vms[n].cf["ip_address"]
              /\ vms[n].cf["vcenter_id"] = pre.vms[n].cf["vcenter_id"]

\* The entities that the last apply attached to a cluster a call returned:
\* those it created, and those it updated with a vcenter_cluster entry.
Resolved ==
    {n \in Names :
        /\ Exists(vms, n) /\ vms[n].cf["last_synced"] = runs
        /\ \/ ~Exists(pre.vms, n)
           \/ \E j \in DOMAIN diff.to_update :
                 /\ diff.to_update[j].vm = n
                 /\ "vcenter_cluster" \in DOMAIN diff.to_update[j].changes}

\* C24 -- Cluster resolution is idempotent: no step of a run adds a second
\* cluster of a name or deletes a cluster; a cluster keeps its name, type
\* and status, and its group changes only to the group of the run; every
\* cluster an entity was attached to by the run belongs to that group.
ClusterResolution ==
    [][/\ Len(clusters') >= Len(clusters)
       /\ \A i \in DOMAIN clusters :
             /\ clusters'[i].name = clusters[i].name
             /\ clusters'[i].type = clusters[i].type
             /\ clusters'[i].status = clusters[i].status
             /\ clusters'[i].group \in {clusters[i].group, cluster_group_name}
       /\ \A i \in DOMAIN clusters' :
             LET same == ClustersNamed(clusters', clusters'[i].name)
             IN  \/ Cardinality(same) = 1
                 \/ same = ClustersNamed(clusters, clusters'[i].name)
       /\ (pc = "planned" /\ pc' = "done" /\ ended' = "ok") =>
             \A n \in Resolved' :
                 /\ clusters'[vms'[n].cluster].group = cluster_group_name
                 /\ clusters'[vms'[n].cluster].name
                       = DerivedCluster(DescriptionOf(vcenter_vms, n))
      ]_vars

\* The cluster "cl-a" of another group was found, re-attached with its
\* type kept, and an entity was placed in it.
ClusterResolutionWitness ==
    /\ pc = "done" /\ ended = "ok"
    /\ \E i \in DOMAIN pre.clusters :
          /\ pre.clusters[i].group # cluster_group_name
          /\ clusters[i].group = cluster_group_name
          /\ clusters[i].type = "legacy"
          /\ \E n \in Resolved : vms[n].cluster = i
    /\ \A i \in DOMAIN clusters : Cardinality(ClustersNamed(clusters, clusters[i].name)) = 1

\* C25 -- Disk reconciliation scope: after an apply with no errors, every
\* entity in a cluster of the default cluster group whose name has a
\* description in the fetched list has exactly the disks of that
\* description, whether the run created it, updated it or skipped it.
DiskScope ==
    (pc = "done" /\ ended = "ok" /\ result.errors = << >>) =>
        \A n \in Names :
            (InClusterGroup(DB, n) /\ HasDescription(vcenter_vms, n)) =>
                LET l == DescriptionOf(vcenter_vms, n).disks
                IN  /\ DOMAIN disks[n] = {l[i].name : i \in DOMAIN l}
                    /\ \A i \in DOMAIN l :
                          /\ disks[n][l[i].name].size = l[i].size_mb
                          /\ disks[n][l[i].name].description = DiskDescription(l[i])

\* A skipped entity whose disks the run brought to its description's.
DiskScopeWitness ==
    /\ pc = "done" /\ ended = "ok" /\ result.errors = << >>
    /\ \E n \in Names :
          /\ InSeq(diff.to_skip, n)
          /\ InClusterGroup(DB, n)
          /\ pre.disks[n] # disks[n]
          /\ Cardinality(DOMAIN disks[n]) = Len(DescriptionOf(vcenter_vms, n).disks)
          /\ disks[n] # << >>

\* C26 -- Skip means no entity write: an entity placed in to_skip has, after
\* apply_changes, the status, vcpus, memory, cluster and custom fields
\* (last_synced included) it had before, and unchanged = len(to_skip).
SkipWritesNothing ==
    (pc = "done" /\ ended \in {"ok", "apply"}) =>
        /\ result.unchanged = Len(diff.to_skip)
        /\ \A j \in DOMAIN diff.to_skip :
              LET n == diff.to_skip[j]
              IN  /\ vms[n].status = pre.vms[n].status
                  /\ vms[n].vcpus = pre.vms[n].vcpus
                  /\ vms[n].memory = pre.vms[n].memory
                  /\ vms[n].cluster = pre.vms[n].cluster
                  /\ vms[n].cf = pre.vms[n].cf

\* A run that skipped one entity and updated the other: the skipped one
\* keeps the stamp of the run before.
SkipWritesNothingWitness ==
    /\ pc = "done" /\ ended = "ok" /\ runs = 2
    /\ Len(diff.to_skip) = 1 /\ result.unchanged = 1 /\ result.updated = 1
    /\ vms[diff.to_skip[1]].cf["last_synced"] = 1

\* The entities that were, before the apply, in a cluster outside the
\* default cluster group.
Unrelated ==
    {n \in Names : Exists(pre.vms, n)
                     /\ pre.clusters[pre.vms[n].cluster].group # cluster_group_name}

NextSignals == Fetch \/ Diff \/ Apply \/ SaveBySignal

SpecSignals == InitRace /\ [][NextSignals]_vars

\* The attributes of an entity other than those in F have the values of
\* the entity old.
KeepsAllBut(new, old, F) ==
    /\ \A f \in {"id", "name", "status", "vcpus", "memory", "cluster"} \ F :
          new[f] = old[f]
    /\ \A k \in CFKeys \ F : new.cf[k] = old.cf[k]

\* What an update owns: the fields of its change set, last_synced, and the
\* cluster reference when the change set names vcenter_cluster.
OwnedByUpdate(changes) ==
    DOMAIN changes \cup {"last_synced"}
        \cup (IF "vcenter_cluster" \in DOMAIN changes THEN {"cluster"} ELSE {})

\* C28 -- An update or a missing-mark writes only what it owns: a to_update
\* entity changes only in the fields of its change set, its cluster
\* reference (with a vcenter_cluster entry) and last_synced, a
\* to_mark_missing entity only in status and last_synced; every other
\* custom field (obu_services for one) and native attribute is not changed
\* by the apply and keeps the value it had when the existing set was read.
WritesOnlyOwned ==
    [][(pc = "planned" /\ pc' = "done" /\ ended' = "ok" /\ result'.errors = << >>) =>
          /\ \A j \in DOMAIN diff.to_update :
                LET n == diff.to_update[j].vm
                    F == OwnedByUpdate(diff.to_update[j].changes)
                IN  /\ KeepsAllBut(vms'[n], vms[n], F)
                    /\ KeepsAllBut(vms'[n], existing_vms[n], F)
          /\ \A j \in DOMAIN diff.to_mark_missing :
                LET n == diff.to_mark_missing[j]
                IN  /\ KeepsAllBut(vms'[n], vms[n], {"status", "last_synced"})
                    /\ KeepsAllBut(vms'[n], existing_vms[n], {"status", "last_synced"})
      ]_vars


\* C29 -- Disk reconciliation leaves alone the disks of every entity that
\* has no description in the fetched list and of every entity whose cluster
\* is outside the default cluster group: the run neither deletes, creates
\* nor modifies them.
DisksLeftAlone ==
    [][(pc = "planned" /\ pc' = "done") =>
          \A n \in Names :
              (Exists(vms', n)
                 /\ \/ ~HasDescription(vcenter_vms, n)
                    \/ clusters'[vms'[n].cluster].group # cluster_group_name)
                  => disks'[n] = disks[n] /\ written'[n] = << >>
      ]_vars

\* An entity with disks was absent from the list and marked failed; its
\* disks are as they were, while the other entity's disks were written.
DisksLeftAloneWitness ==
    /\ pc = "done" /\ ended = "ok"
    /\ \E n, m \in Names :
          /\ Exists(pre.vms, n) /\ ~HasDescription(vcenter_vms, n)
          /\ InClusterGroup(DB, n)
          /\ pre.vms[n].status # "failed" /\ vms[n].status = "failed"
          /\ disks[n] # << >> /\ disks[n] = pre.disks[n]
          /\ written[m] # << >>

\* The errors of the create and update loops in the result.
ItemErrors == {j \in DOMAIN result.errors : result.errors[j].kind \in {"create", "update"}}

\* C30 -- Whenever apply_changes returns normally, total_processed =
\* len(to_create) + len(to_update) + len(to_skip), the number of desired
\* records, whether or not items failed; created + updated + unchanged <=
\* total_processed, with equality iff no create or update item raised, and
\* marked_missing is not part of total_processed.
TotalProcessed ==
    (pc = "done" /\ ended = "ok") =>
        /\ result.total_processed
              = Len(diff.to_create) + Len(diff.to_update) + Len(diff.to_skip)
        /\ result.total_processed = Len(vcenter_vms)
        /\ result.created + result.updated + result.unchanged <= result.total_processed
        /\ (result.created + result.updated + result.unchanged = result.total_processed)
              <=> ItemErrors = {}
        /\ result.created + result.updated + result.unchanged + Cardinality(ItemErrors)
              = result.total_processed

\* One desired record whose update raised and one entity marked missing:
\* the total is 1 and no counter of the three is incremented.
TotalProcessedWitness ==
    /\ pc = "done" /\ ended = "ok"
    /\ result.total_processed = 1 /\ result.marked_missing = 1
    /\ result.created + result.updated + result.unchanged = 0
    /\ Cardinality(ItemErrors) = 1
=============================================================================
